---- MODULE Spec2Model ----
(***************************************************************************)
(* QuantDash: the Black-Scholes pricer (utils/finance.ts, reproduced in    *)
(* README.md and in the second half of app/page.tsx), the Monte Carlo      *)
(* simulator and the portfolio rebalancing calculation of app/page.tsx.    *)
(*                                                                         *)
(* JavaScript numbers are modelled as decimal fixed-point integers: a      *)
(* dimensionless quantity x is the integer x * ONE, an amount of money m   *)
(* is the integer m * USD.  The three non-finite doubles are three         *)
(* reserved integers (NaN, PosInf, NegInf) and every arithmetic operator   *)
(* follows the IEEE-754 rules for them.  Results are truncated toward      *)
(* zero at the last kept decimal, so a modelled value is within a few      *)
(* units of the last decimal of the double the code computes.              *)
(***************************************************************************)
EXTENDS Integers, Sequences, FiniteSets, TLC

\* ------------------------------------------------------------------------
\* Numbers
\* ------------------------------------------------------------------------

\* scale of a dimensionless number: 7 decimals, the precision of the
\* coefficients of normalCDF
ONE == 10^7
\* scale of an amount of money: 6 decimals
USD == 10^6

NaN    == 0 - (2^30 - 1) - 2^30
PosInf == (2^30 - 1) + 2^30
NegInf == 1 - (2^30 - 1) - 2^30

IsNaN(x)    == x = NaN
IsFinite(x) == x \notin {NaN, PosInf, NegInf}

Abs(x) == IF x < 0 THEN 0 - x ELSE x
Sgn(x) == IF x < 0 THEN 0 - 1 ELSE IF x > 0 THEN 1 ELSE 0
Max(a, b) == IF a >= b THEN a ELSE b
Min(a, b) == IF a <= b THEN a ELSE b

\* floor(a*b/ONE) for a, b >= 0, by long multiplication in base 1000 so
\* that no intermediate value exceeds the result or 2^31
MulScale(a, b) ==
  IF a = 0 \/ b = 0 THEN 0
  ELSE LET a0 == a % 1000
           a1 == (a \div 1000) % 1000
           a2 == a \div 1000000
           b0 == b % 1000
           b1 == (b \div 1000) % 1000
           b2 == b \div 1000000
           c0 == a0 * b0
           c1 == a0 * b1 + a1 * b0
           c2 == a0 * b2 + a1 * b1 + a2 * b0
           c3 == a1 * b2 + a2 * b1
           c4 == a2 * b2
       IN  c4 * 100000 + c3 * 100 + (c2 + (c1 + c0 \div 1000) \div 1000) \div 10

\* <<10*qr[1] + floor(10*qr[2]/c), 10*qr[2] mod c>> for 0 <= qr[2] < c < 2^30,
\* by doubling and adding so that no intermediate value exceeds 2c
Times10(qr, c) ==
  IF c < 2^27 THEN <<10 * qr[1] + (10 * qr[2]) \div c, (10 * qr[2]) % c>>
  ELSE
  LET r1 == 2 * qr[2]
      c1 == IF r1 >= c THEN 1 ELSE 0
      r2 == 2 * (r1 - c1 * c)
      c2 == IF r2 >= c THEN 1 ELSE 0
      r3 == (r2 - c2 * c) + qr[2]
      c3 == IF r3 >= c THEN 1 ELSE 0
      r4 == 2 * (r3 - c3 * c)
      c4 == IF r4 >= c THEN 1 ELSE 0
  IN  <<10 * qr[1] + 2 * (2 * c1 + c2 + c3) + c4, r4 - c4 * c>>

RECURSIVE LongDiv(_, _, _)
\* <<q, r>> with a * 10^k = q*c + r and 0 <= r < c, for a >= 0, 0 < c < 2^30
LongDiv(a, c, k) ==
  IF k = 0 THEN <<a \div c, a % c>> ELSE Times10(LongDiv(a, c, k - 1), c)

\* the number of decimals of a scale
Decimals(s) == IF s = ONE THEN 7 ELSE 6

\* floor(a*s/c) for a >= 0, a scale s and 0 < c < 2^30
DivScale(a, s, c) == IF a = 0 THEN 0 ELSE LongDiv(a, c, Decimals(s))[1]


\* -x
FNeg(x) ==
  IF x = NaN THEN NaN
  ELSE IF x = PosInf THEN NegInf
  ELSE IF x = NegInf THEN PosInf
  ELSE 0 - x

\* a + b
FAdd(a, b) ==
  IF a = NaN \/ b = NaN THEN NaN
  ELSE IF ~IsFinite(a) THEN (IF ~IsFinite(b) /\ b # a THEN NaN ELSE a)
  ELSE IF ~IsFinite(b) THEN b
  ELSE a + b

\* a - b
FSub(a, b) == FAdd(a, FNeg(b))

\* a * b truncated toward zero, where one factor is at scale ONE and the
\* result has the scale of the other
FMul(a, b) ==
  IF a = NaN \/ b = NaN THEN NaN
  ELSE IF ~IsFinite(a) \/ ~IsFinite(b)
       THEN (IF a = 0 \/ b = 0 THEN NaN
             ELSE IF Sgn(a) * Sgn(b) > 0 THEN PosInf ELSE NegInf)
  ELSE Sgn(a) * Sgn(b) * MulScale(Abs(a), Abs(b))

\* a / b truncated toward zero, where the scale of the result is s times the
\* quotient of the scales of a and b
FDiv(a, b, s) ==
  IF a = NaN \/ b = NaN THEN NaN
  ELSE IF ~IsFinite(a)
       THEN (IF ~IsFinite(b) THEN NaN
             ELSE IF Sgn(a) * (IF b < 0 THEN 0 - 1 ELSE 1) > 0 THEN PosInf ELSE NegInf)
  ELSE IF ~IsFinite(b) THEN 0
  ELSE IF b = 0
       THEN (IF a = 0 THEN NaN ELSE IF a > 0 THEN PosInf ELSE NegInf)
  ELSE Sgn(a) * Sgn(b) * DivScale(Abs(a), s, Abs(b))

\* a / n for a positive integer n
FDivN(a, n) == IF IsFinite(a) THEN Sgn(a) * (Abs(a) \div n) ELSE a

\* Math.abs
FAbs(v) == IF v = NegInf THEN PosInf ELSE IF IsFinite(v) THEN Abs(v) ELSE v

\* a < b, a > b in JavaScript: false when either side is NaN
FLt(a, b) == a # NaN /\ b # NaN /\ a < b
FGt(a, b) == FLt(b, a)

\* ln 2 and pi at scale ONE
LN2 == 6931472
PI  == 31415927

RECURSIVE ExpSeries(_, _, _, _)
\* the Taylor polynomial 1 + sg*f/n * (1 + sg*f/(n+1) * ( ... )) up to degree top
ExpSeries(f, sg, n, top) ==
  IF n > top THEN ONE
  ELSE ONE + sg * (MulScale(f, ExpSeries(f, sg, n + 1, top)) \div n)

\* e^x for a number x at scale ONE
FExp(x) ==
  IF x = NaN THEN NaN
  ELSE IF x = PosInf THEN PosInf
  ELSE IF x = NegInf THEN 0
  ELSE LET k == Abs(x) \div LN2
           f == Abs(x) % LN2
       IN  IF x >= 0 THEN ExpSeries(f, 1, 1, 12) * 2^k
           ELSE IF k > 30 THEN 0
           ELSE ExpSeries(f, 0 - 1, 1, 12) \div 2^k

RECURSIVE AtanhSeries(_, _, _)
\* 1/n + w/(n+2) + w^2/(n+4) + ... up to the term in 1/top
AtanhSeries(w, n, top) ==
  IF n > top THEN 0
  ELSE ONE \div n + MulScale(w, AtanhSeries(w, n + 2, top))

RECURSIVE LnPos(_)
\* ln x for finite x > 0 at scale ONE: halve or double into [1, 2), then
\* ln m = 2 atanh((m - 1)/(m + 1))
LnPos(x) ==
  IF x >= 2 * ONE THEN LN2 + LnPos(x \div 2)
  ELSE IF x < ONE THEN LnPos(2 * x) - LN2
  ELSE LET z == DivScale(x - ONE, ONE, x + ONE)
       IN  2 * MulScale(z, AtanhSeries(MulScale(z, z), 1, 19))

\* Math.log
FLog(x) ==
  IF x = NaN \/ x = NegInf THEN NaN
  ELSE IF x = PosInf THEN PosInf
  ELSE IF x < 0 THEN NaN
  ELSE IF x = 0 THEN NegInf
  ELSE LnPos(x)

\* a*a mod ONE for a >= 0, by the same long multiplication as MulScale
SquareRem(a) ==
  LET a0 == a % 1000
      a1 == (a \div 1000) % 1000
      a2 == a \div 1000000
  IN  (a0 * a0 + 1000 * ((2 * a0 * a1) % 10000)
       + 1000000 * ((2 * a0 * a2 + a1 * a1) % 10)) % ONE

\* root*root <= v*ONE, for root, v >= 0; a root above 146 * 10^6 has a square
\* above 2^31 * ONE, which is above every v
RootFits(v, root) ==
  /\ root <= 146 * 10^6
  /\ \/ MulScale(root, root) < v
     \/ MulScale(root, root) = v /\ SquareRem(root) = 0

\* the largest digit d with RootFits(v, lo + d*p), by bisection of 0..9
RootDigit(v, lo, p) ==
  IF RootFits(v, lo + 5 * p)
  THEN IF RootFits(v, lo + 7 * p)
       THEN (IF RootFits(v, lo + 9 * p) THEN 9
             ELSE IF RootFits(v, lo + 8 * p) THEN 8 ELSE 7)
       ELSE (IF RootFits(v, lo + 6 * p) THEN 6 ELSE 5)
  ELSE IF RootFits(v, lo + 2 * p)
       THEN (IF RootFits(v, lo + 4 * p) THEN 4
             ELSE IF RootFits(v, lo + 3 * p) THEN 3 ELSE 2)
       ELSE (IF RootFits(v, lo + p) THEN 1 ELSE 0)

RECURSIVE SqrtDigits(_, _, _)
\* floor(sqrt(v*ONE)) for v >= 0: lo plus the digits of weight p and below,
\* one decimal digit at a time
SqrtDigits(v, lo, p) ==
  IF p = 0 THEN lo
  ELSE SqrtDigits(v, lo + RootDigit(v, lo, p) * p, p \div 10)

\* Math.sqrt
FSqrt(x) ==
  IF x = NaN \/ x = NegInf THEN NaN
  ELSE IF x = PosInf THEN PosInf
  ELSE IF x < 0 THEN NaN
  ELSE SqrtDigits(x, 0, 10^8)

RECURSIVE CosSeries(_, _, _)
\* 1 - w/(n(n+1)) * (1 - w/((n+2)(n+3)) * ( ... )) with w = theta^2
CosSeries(w, n, top) ==
  IF n > top THEN ONE
  ELSE ONE - MulScale(w, CosSeries(w, n + 2, top)) \div (n * (n + 1))

\* Math.cos for a finite angle 0 <= theta <= 2 pi at scale ONE
FCos(theta) ==
  LET a == IF theta > PI THEN 2 * PI - theta ELSE theta
      b == IF 2 * a > PI THEN PI - a ELSE a
      c == CosSeries(MulScale(b, b), 1, 15)
  IN  IF 2 * a > PI THEN 0 - c ELSE c

\* ------------------------------------------------------------------------
\* Portfolio amounts
\* ------------------------------------------------------------------------
\* An asset's currentValue is a whole number of cents and its targetAllocation
\* a whole number of hundredths of a percent.  A derived amount is the pair
\* <<c, f>>: c cents plus f ten-thousandths of a cent, 0 <= f < 10^4, which
\* holds totalValue * targetAllocation / 100 exactly.

\* hundredths of a percent in one percent, and cents in one unit of money
PCT  == 100
CENT == 100

WFrac == 10^4

W(c) == <<c, 0>>
WAdd(a, b) == <<a[1] + b[1] + (a[2] + b[2]) \div WFrac, (a[2] + b[2]) % WFrac>>
WNeg(a) == IF a[2] = 0 THEN <<0 - a[1], 0>> ELSE <<0 - a[1] - 1, WFrac - a[2]>>
WSub(a, b) == WAdd(a, WNeg(b))
WLt(a, b) == a[1] < b[1] \/ (a[1] = b[1] /\ a[2] < b[2])
WGt(a, b) == WLt(b, a)
WAbs(a) == IF a[1] < 0 THEN WNeg(a) ELSE a

\* (total * alloc) / 100 for total in cents and alloc in hundredths of a
\* percent, exactly: |total| * |alloc| / 10^4 by splitting total at 10^4
PercentOf(total, alloc) ==
  LET th  == Abs(total) \div WFrac
      tl  == Abs(total) % WFrac
      mag == <<th * Abs(alloc) + (tl * Abs(alloc)) \div WFrac,
               (tl * Abs(alloc)) % WFrac>>
  IN  IF Sgn(total) * Sgn(alloc) < 0 THEN WNeg(mag) ELSE mag

RECURSIVE SumOver(_, _)
\* seq.reduce((sum, a) => sum + a[field], 0) over whole numbers
SumInts(seq) == SumOver(seq, Len(seq))
SumOver(seq, n) == IF n = 0 THEN 0 ELSE SumOver(seq, n - 1) + seq[n]

RECURSIVE WSumOver(_, _)
\* the sum of a sequence of derived amounts
WSum(seq) == WSumOver(seq, Len(seq))
WSumOver(seq, n) == IF n = 0 THEN W(0) ELSE WAdd(WSumOver(seq, n - 1), seq[n])

\* ------------------------------------------------------------------------
\* The analytic pricer (utils/finance.ts)
\* ------------------------------------------------------------------------

\* beyond this |v| the double e^(-v*v/2) is below 1e-42, which is 0 at scale ONE
ExpCutoff == 14 * ONE

\* Math.exp(-v * v): the density's exponent without its half
ExpNegHalfSquare_noHalf(v) ==
  IF IsFinite(v) /\ Abs(v) > ExpCutoff THEN 0
  ELSE FExp(FMul(FNeg(v), v))

\* Math.exp(-v * v / 2)
ExpNegHalfSquare(v) ==
  IF IsFinite(v) /\ Abs(v) > ExpCutoff THEN 0
  ELSE FExp(FDivN(FMul(FNeg(v), v), 2))

\* the coefficients of the polynomial of normalCDF, at scale ONE and lowest first
CdfCoefficients == <<3193815, 0 - 3565638, 17814780, 0 - 18212560, 13302740>>

RECURSIVE Horner(_, _, _)
\* c[n] + t * (c[n+1] + t * ( ... + t * c[Len(c)]))
Horner(c, t, n) ==
  IF n = Len(c) THEN c[n] ELSE FAdd(c[n], FMul(t, Horner(c, t, n + 1)))

\* the approximation without its upper branch: prob for every x
normalCDF_lowerTailOnly(v) ==
  LET t    == FDiv(ONE, FAdd(ONE, FMul(2316419, FAbs(v))), ONE)
      d    == FMul(3989423, ExpNegHalfSquare(v))
  IN  FMul(FMul(d, t), Horner(CdfCoefficients, t, 1))

\* the approximation with its two tails exchanged: x > 0 ? prob : 1 - prob
normalCDF_tailsExchanged(v) ==
  LET t    == FDiv(ONE, FAdd(ONE, FMul(2316419, FAbs(v))), ONE)
      d    == FMul(3989423, ExpNegHalfSquare(v))
      prob == FMul(FMul(d, t), Horner(CdfCoefficients, t, 1))
  IN  IF FGt(v, 0) THEN prob ELSE FSub(ONE, prob)

normalCDF(v) ==
  LET t    == FDiv(ONE, FAdd(ONE, FMul(2316419, FAbs(v))), ONE)
      d    == FMul(3989423, ExpNegHalfSquare(v))
      prob == FMul(FMul(d, t), Horner(CdfCoefficients, t, 1))
  IN  IF FGt(v, 0) THEN FSub(ONE, prob) ELSE prob

\* 1 / sqrt(2 pi) at scale ONE: the divisor Math.sqrt(2 * Math.PI) of normalPDF
normalPDF(v) == FDiv(ExpNegHalfSquare(v), FSqrt(2 * PI), ONE)

\* calculateBlackScholes(S, K, T, r, sigma): S0 and K0 are amounts of money,
\* T0, r0 and sigma0 are dimensionless; no statement of the function throws
calculateBlackScholes(S0, K0, T0, r0, sigma0) ==
  LET sqrtT == FSqrt(T0)
      volT  == FMul(sigma0, sqrtT)
      d1    == FDiv(FAdd(FLog(FDiv(S0, K0, ONE)),
                         FMul(FAdd(r0, FMul(FDivN(sigma0, 2), sigma0)), T0)),
                    volT, ONE)
      d2    == FSub(d1, volT)
      Nd1   == normalCDF(d1)
      Nd2   == normalCDF(d2)
      Nmd1  == normalCDF(FNeg(d1))
      Nmd2  == normalCDF(FNeg(d2))
      nd1   == normalPDF(d1)
      Kdisc == FMul(K0, FExp(FMul(FNeg(r0), T0)))
      theta == FSub(FDiv(FNeg(FMul(FMul(S0, nd1), sigma0)),
                         FMul(2 * ONE, sqrtT), ONE),
                    FMul(FMul(r0, Kdisc), Nd2))
  IN  [ error     |-> "none",
        callPrice |-> FSub(FMul(S0, Nd1), FMul(Kdisc, Nd2)),
        putPrice  |-> FSub(FMul(Kdisc, Nmd2), FMul(S0, Nmd1)),
        delta     |-> Nd1,
        gamma     |-> FDiv(nd1, FMul(FMul(S0, sigma0), sqrtT), USD),
        theta     |-> FDivN(theta, 365),
        vega      |-> FDivN(FMul(FMul(S0, nd1), sqrtT), 100),
        rho       |-> FDivN(FMul(FMul(Kdisc, T0), Nd2), 100) ]

\* ------------------------------------------------------------------------
\* State of the page component QuantDash (app/page.tsx)
\* ------------------------------------------------------------------------

VARIABLES
  S,             \* underlying price, money
  K,             \* strike price, money
  T,             \* years to expiry
  r,             \* risk-free rate in percent
  sigma,         \* volatility in percent
  result,        \* the memoized calculateBlackScholes(S, K, T, r / 100, sigma / 100)
  assets,        \* the portfolio: a sequence of Asset records
  calculations,  \* the memoized rebalancing calculation over assets
  now,           \* Date.now()
  mcParams,      \* the configuration shown on the Monte Carlo tab
  mcResults,     \* << >> for null, or <<r>> for the published result r
  isCalculating, \* the run button is disabled while this holds
  timer,         \* << >>, or <<c>>: a pending timeout whose callback closes over c
  run,           \* the locals of the timeout callback and where it stands
  activeTab,     \* the tab shown: "derivatives", "montecarlo" or "allocation"
  ticker,        \* the text of the ticker box
  isFetchingPrice, \* the fetch button is disabled while this holds
  priceError,    \* the message under the ticker box, "" for none
  fetches,       \* the calls of handleStockSearch that await their response
  searchCalls    \* the number of calls of handleStockSearch so far

pricerVars == <<S, K, T, r, sigma, result>>
allocVars  == <<assets, calculations, now>>
simVars    == <<mcParams, mcResults, isCalculating, timer, run>>
searchVars == <<activeTab, ticker, isFetchingPrice, priceError, fetches, searchCalls>>
vars == <<pricerVars, allocVars, simVars, searchVars>>

\* what the number boxes of the derivatives tab are given: a number box takes
\* any number, also outside the range of its slider
PriceInputs == {0 - 100 * USD, 0, 100 * USD, 110 * USD}
TimeInputs  == {0 - ONE, 0, ONE \div 4, ONE}
RateInputs  == {0 - 125 * (ONE \div 10), 0, 5 * ONE, 125 * (ONE \div 10)}
VolInputs   == {0 - 20 * ONE, 0, 20 * ONE, 50 * ONE}

\* the body of the useMemo that computes result
ResultMemo(s0, k0, t0, rPct, sigmaPct) ==
  calculateBlackScholes(s0, k0, t0, FDivN(rPct, 100), FDivN(sigmaPct, 100))

\* ------------------------------------------------------------------------
\* The derivatives tab
\* ------------------------------------------------------------------------

InitPricer ==
  /\ S = 100 * USD
  /\ K = 100 * USD
  /\ T = ONE
  /\ r = 5 * ONE
  /\ sigma = 20 * ONE
  /\ result = ResultMemo(100 * USD, 100 * USD, ONE, 5 * ONE, 20 * ONE)

\* SliderInput onChange = setS, and the render that follows it
setS(v) ==
  /\ S' = v
  /\ result' = ResultMemo(v, K, T, r, sigma)
  /\ UNCHANGED <<K, T, r, sigma, allocVars, simVars, searchVars>>

setK(v) ==
  /\ K' = v
  /\ result' = ResultMemo(S, v, T, r, sigma)
  /\ UNCHANGED <<S, T, r, sigma, allocVars, simVars, searchVars>>

setT(v) ==
  /\ T' = v
  /\ result' = ResultMemo(S, K, v, r, sigma)
  /\ UNCHANGED <<S, K, r, sigma, allocVars, simVars, searchVars>>

setR(v) ==
  /\ r' = v
  /\ result' = ResultMemo(S, K, T, v, sigma)
  /\ UNCHANGED <<S, K, T, sigma, allocVars, simVars, searchVars>>

setSigma(v) ==
  /\ sigma' = v
  /\ result' = ResultMemo(S, K, T, r, v)
  /\ UNCHANGED <<S, K, T, r, allocVars, simVars, searchVars>>

NextPricer ==
  \/ \E v \in PriceInputs : setS(v)
  \/ \E v \in PriceInputs : setK(v)
  \/ \E v \in TimeInputs : setT(v)
  \/ \E v \in RateInputs : setR(v)
  \/ \E v \in VolInputs : setSigma(v)

\* ------------------------------------------------------------------------
\* The rebalancing calculation (app/page.tsx, useMemo over [assets])
\* ------------------------------------------------------------------------

\* a.currentValue || 0 and a.targetAllocation || 0: every stored value is a
\* finite number, so the fallback only turns 0 into 0
OrZero(v) == IF v = 0 THEN 0 ELSE v

\* the action of an asset whose target is taken from its own value
ActionOf_ofOwnValue(asset, totalValue) ==
  LET targetValue == PercentOf(OrZero(asset.currentValue), OrZero(asset.targetAllocation))
      delta       == WSub(targetValue, W(OrZero(asset.currentValue)))
  IN  [ id               |-> asset.id,
        name             |-> asset.name,
        currentValue     |-> asset.currentValue,
        targetAllocation |-> asset.targetAllocation,
        targetValue      |-> targetValue,
        delta            |-> delta,
        action           |-> IF WGt(delta, W(1)) THEN "BUY"
                             ELSE IF WLt(delta, W(0 - 1)) THEN "SELL"
                             ELSE "HOLD" ]

\* the action of an asset without a threshold around zero on the buy side
ActionOf_buysAtZero(asset, totalValue) ==
  LET targetValue == PercentOf(totalValue, OrZero(asset.targetAllocation))
      delta       == WSub(targetValue, W(OrZero(asset.currentValue)))
  IN  [ id               |-> asset.id,
        name             |-> asset.name,
        currentValue     |-> asset.currentValue,
        targetAllocation |-> asset.targetAllocation,
        targetValue      |-> targetValue,
        delta            |-> delta,
        action           |-> IF ~WLt(delta, W(0)) THEN "BUY"
                             ELSE IF WLt(delta, W(0 - 1)) THEN "SELL"
                             ELSE "HOLD" ]

\* the action of an asset whose delta is taken the other way round
ActionOf_deltaReversed(asset, totalValue) ==
  LET targetValue == PercentOf(totalValue, OrZero(asset.targetAllocation))
      delta       == WSub(W(OrZero(asset.currentValue)), targetValue)
  IN  [ id               |-> asset.id,
        name             |-> asset.name,
        currentValue     |-> asset.currentValue,
        targetAllocation |-> asset.targetAllocation,
        targetValue      |-> targetValue,
        delta            |-> delta,
        action           |-> IF WGt(delta, W(1)) THEN "BUY"
                             ELSE IF WLt(delta, W(0 - 1)) THEN "SELL"
                             ELSE "HOLD" ]

\* the action of an asset with the thresholds taken inclusively: delta >= 0.01
\* buys and delta <= -0.01 sells
ActionOf_inclusiveThresholds(asset, totalValue) ==
  LET targetValue == PercentOf(totalValue, OrZero(asset.targetAllocation))
      delta       == WSub(targetValue, W(OrZero(asset.currentValue)))
  IN  [ id               |-> asset.id,
        name             |-> asset.name,
        currentValue     |-> asset.currentValue,
        targetAllocation |-> asset.targetAllocation,
        targetValue      |-> targetValue,
        delta            |-> delta,
        action           |-> IF ~WLt(delta, W(1)) THEN "BUY"
                             ELSE IF ~WGt(delta, W(0 - 1)) THEN "SELL"
                             ELSE "HOLD" ]

\* one element of actions: the asset's own fields and the three derived ones
ActionOf(asset, totalValue) ==
  LET targetValue == PercentOf(totalValue, OrZero(asset.targetAllocation))
      delta       == WSub(targetValue, W(OrZero(asset.currentValue)))
  IN  [ id               |-> asset.id,
        name             |-> asset.name,
        currentValue     |-> asset.currentValue,
        targetAllocation |-> asset.targetAllocation,
        targetValue      |-> targetValue,
        delta            |-> delta,
        action           |-> IF WGt(delta, W(1)) THEN "BUY"
                             ELSE IF WLt(delta, W(0 - 1)) THEN "SELL"
                             ELSE "HOLD" ]

\* a filter that keeps the purchases only
NotHold_buysOnly(a) == a.action = "BUY"

NotHold(a) == a.action # "HOLD"
HasValue(a) == a.currentValue > 0
ChartName(a) == IF a.name = "" THEN "Unnamed" ELSE a.name

\* the record of a body whose tolerance is inclusive: Math.abs(...) <= 0.01
RebalanceMemo_inclusiveTolerance(list) ==
  LET totalValue      == SumInts([i \in 1..Len(list) |-> OrZero(list[i].currentValue)])
      totalAllocation == SumInts([i \in 1..Len(list) |-> OrZero(list[i].targetAllocation)])
      actions         == [i \in 1..Len(list) |-> ActionOf(list[i], totalValue)]
      HasTarget(a)    == a.targetAllocation > 0 /\ totalValue > 0
      shown           == SelectSeq(list, HasValue)
      targeted        == SelectSeq(list, HasTarget)
  IN  [ error           |-> "none",
        totalValue      |-> totalValue,
        totalAllocation |-> totalAllocation,
        isValid         |-> Abs(totalAllocation - 100 * PCT) <= 1,
        actions         |-> actions,
        actionableItems |-> SelectSeq(actions, NotHold),
        currentData     |-> [i \in 1..Len(shown) |->
                               [name |-> ChartName(shown[i]),
                                value |-> W(shown[i].currentValue)]],
        targetData      |-> [i \in 1..Len(targeted) |->
                               [name |-> ChartName(targeted[i]),
                                value |-> PercentOf(totalValue, targeted[i].targetAllocation)]] ]

\* the record the body of the useMemo returns for the array list
RebalanceMemo(list) ==
  LET totalValue      == SumInts([i \in 1..Len(list) |-> OrZero(list[i].currentValue)])
      totalAllocation == SumInts([i \in 1..Len(list) |-> OrZero(list[i].targetAllocation)])
      actions         == [i \in 1..Len(list) |-> ActionOf(list[i], totalValue)]
      HasTarget(a)    == a.targetAllocation > 0 /\ totalValue > 0
      shown           == SelectSeq(list, HasValue)
      targeted        == SelectSeq(list, HasTarget)
  IN  [ error           |-> "none",
        totalValue      |-> totalValue,
        totalAllocation |-> totalAllocation,
        isValid         |-> Abs(totalAllocation - 100 * PCT) < 1,
        actions         |-> actions,
        actionableItems |-> SelectSeq(actions, NotHold),
        currentData     |-> [i \in 1..Len(shown) |->
                               [name |-> ChartName(shown[i]),
                                value |-> W(shown[i].currentValue)]],
        targetData      |-> [i \in 1..Len(targeted) |->
                               [name |-> ChartName(targeted[i]),
                                value |-> PercentOf(totalValue, targeted[i].targetAllocation)]] ]

\* a body that clamps negative values in place before it computes
Calculate_clampsInPlace(list) ==
  LET clamped == [i \in 1..Len(list) |->
                    [list[i] EXCEPT !.currentValue = Max(0, list[i].currentValue)]]
  IN  [list |-> clamped, memo |-> RebalanceMemo(clamped)]

\* one run of the body of the useMemo over the array the component holds:
\* the record it returns, and the array as the run leaves it (reduce, map and
\* filter build new arrays and {...asset} a new object, so the array is left
\* as it was)
Calculate(list) == [list |-> list, memo |-> RebalanceMemo(list)]

\* the largest portfolio and the last clock reading the model follows
MaxAssets == 3
MaxClock  == 1

\* the clock reading at mount: later than any of the ids '1', '2', '3'
MountTime == 10

\* what the number boxes of the allocation table are given (cents, and
\* hundredths of a percent): parseFloat(e.target.value) || 0
CurrentValueInputs == {0 - 5000 * CENT}
AllocationInputs   == {20 * PCT, 50 * PCT}

InitialAssets ==
  << [id |-> 1, name |-> "US Stocks", currentValue |-> 50000 * CENT, targetAllocation |-> 40 * PCT],
     [id |-> 2, name |-> "Bonds", currentValue |-> 30000 * CENT, targetAllocation |-> 30 * PCT],
     [id |-> 3, name |-> "International", currentValue |-> 20000 * CENT, targetAllocation |-> 30 * PCT] >>

InitAlloc ==
  /\ assets = Calculate(InitialAssets).list
  /\ calculations = Calculate(InitialAssets).memo
  /\ now = MountTime

\* setAssets(list) and the render it causes: the component holds list, the
\* memo body runs over it because assets changed
setAssets(list) ==
  LET outcome == Calculate(list)
  IN  /\ assets' = outcome.list
      /\ calculations' = outcome.memo
      /\ UNCHANGED <<now, pricerVars, simVars, searchVars>>

\* [...assets, { id: Date.now().toString(), name: '', currentValue: 0, targetAllocation: 0 }]
WithNewAsset ==
  Append(assets, [id |-> now, name |-> "", currentValue |-> 0, targetAllocation |-> 0])

\* assets.filter(a => a.id !== id)
WithoutAsset(id) == LET Other(a) == a.id # id IN SelectSeq(assets, Other)

\* assets.map(a => a.id === id ? { ...a, [field]: value } : a)
WithField(id, field, value) ==
  [i \in 1..Len(assets) |->
    IF assets[i].id = id THEN [assets[i] EXCEPT ![field] = value] ELSE assets[i]]

addAsset ==
  /\ Len(assets) < MaxAssets
  /\ setAssets(WithNewAsset)

removeAsset(id) == setAssets(WithoutAsset(id))

updateAsset(id, field, value) == setAssets(WithField(id, field, value))

\* time passes
Tick ==
  /\ now < MountTime + MaxClock
  /\ now' = now + 1
  /\ UNCHANGED <<assets, calculations, pricerVars, simVars, searchVars>>

AssetIds == {assets[i].id : i \in 1..Len(assets)}

NextAlloc ==
  \/ addAsset
  \/ \E id \in AssetIds : removeAsset(id)
  \/ \E id \in AssetIds, v \in CurrentValueInputs : updateAsset(id, "currentValue", v)
  \/ \E id \in AssetIds, v \in AllocationInputs : updateAsset(id, "targetAllocation", v)
  \/ Tick

\* ------------------------------------------------------------------------
\* The Monte Carlo tab (app/page.tsx: generateGaussianRandom, simulateGBMPath,
\* runMonteCarloSimulation)
\* ------------------------------------------------------------------------
\* Prices and payoffs are amounts of money at scale USD, T, r, sigma, the
\* uniform draws and the Gaussian draws are at scale ONE, and a squared amount
\* of money is kept with 4 decimals.

\* a / n for an integer n
FDivInt(a, n) ==
  IF a = NaN THEN NaN
  ELSE IF n = 0 THEN (IF a = 0 THEN NaN ELSE IF a > 0 THEN PosInf ELSE NegInf)
  ELSE IF ~IsFinite(a) THEN (IF n > 0 THEN a ELSE FNeg(a))
  ELSE Sgn(a) * Sgn(n) * (Abs(a) \div Abs(n))

\* Math.max
FMax(a, b) == IF a = NaN \/ b = NaN THEN NaN ELSE Max(a, b)

\* a * a for an amount of money a
FSquare(a) ==
  IF a = NaN THEN NaN
  ELSE IF ~IsFinite(a) THEN PosInf
  ELSE MulScale(Abs(a), Abs(a)) \div 10

\* Math.sqrt of a squared amount of money
FSqrtOfSquare(v) ==
  IF v = NaN \/ v = NegInf THEN NaN
  ELSE IF v = PosInf THEN PosInf
  ELSE IF v < 0 THEN NaN
  ELSE FSqrt(v * 10)

\* the largest run the model follows step by step
MaxIterations == 2
MaxSteps      == 1

\* what Math.random() returns in the model: 0 and a value of (0, 1)
Uniforms == {0, ONE \div 2}

\* what the number boxes and buttons of the tab are given
SpotInputs      == {0, 100 * USD}
StrikeInputs    == {100 * USD}
IterationInputs == {0, MaxIterations}
StepInputs      == {0 - 2, 0, MaxSteps}
OptionTypes     == {"call", "put"}

\* while (u === 0) u = Math.random(): where the sampler goes after the draw u
AfterDraw_noRetry(u, retry, next) == next

AfterDraw_resamples(u, retry, next) ==
  IF u = 0 THEN retry ELSE IF next = "gauss" THEN "u1" ELSE next

AfterDraw(u, retry, next) == IF u = 0 THEN retry ELSE next

\* Math.sqrt(-2.0 * Math.log(u1)) * Math.cos(2.0 * Math.PI * u2)
GaussianOf(u1, u2) ==
  FMul(FSqrt(FMul(0 - 2 * ONE, FLog(u1))), FCos(FMul(2 * PI, u2)))

\* path[i] from path[i - 1] with the diffusion term alone in the exponent
NextPrice_withoutDrift(prev, config, Z) ==
  LET dt        == FDivInt(config.T, config.steps)
      diffusion == FMul(FMul(config.sigma, FSqrt(dt)), Z)
  IN  FMul(prev, FExp(diffusion))

\* path[i] from path[i - 1] and the Gaussian draw Z
NextPrice(prev, config, Z) ==
  LET dt        == FDivInt(config.T, config.steps)
      drift     == FMul(FSub(config.r, FMul(FMul(ONE \div 2, config.sigma), config.sigma)), dt)
      diffusion == FMul(FMul(config.sigma, FSqrt(dt)), Z)
  IN  FMul(prev, FExp(FAdd(drift, diffusion)))

\* the payoff at the terminal price ST
PayoffOf(ST, config) ==
  IF config.optionType = "call" THEN FMax(FSub(ST, config.K), 0)
  ELSE FMax(FSub(config.K, ST), 0)

\* payoff * Math.exp(-r * T)
Discounted(payoff, config) == FMul(payoff, FExp(FMul(FNeg(config.r), config.T)))

\* s with x put after the elements that are not above it
InsertSorted(x, s) ==
  LET n == Cardinality({i \in 1..Len(s) : s[i] <= x})
  IN  SubSeq(s, 1, n) \o <<x>> \o SubSeq(s, n + 1, Len(s))

\* the payoffs left in the order of the iterations
SortNumbers_unsorted(s) == s

RECURSIVE SortOver(_, _)
\* payoffs.sort((a, b) => b - a): the largest payoff first
SortNumbers_descending(s) ==
  LET ascending == SortOver(s, Len(s))
  IN  [k \in 1..Len(s) |-> ascending[Len(s) + 1 - k]]

\* payoffs.sort((a, b) => a - b) over numbers
SortNumbers(s) == SortOver(s, Len(s))
SortOver(s, n) == IF n = 0 THEN << >> ELSE InsertSorted(s[n], SortOver(s, n - 1))

\* the chart's paths taken from the path list put in ascending order of
\* terminal price, as if the sort for the 5th percentile had moved the paths
\* with their payoffs
VisualPaths_sortedWithPayoffs(allPaths, iterations) ==
  LET n       == Len(allPaths)
      last(k) == allPaths[k][Len(allPaths[k])]
      rank(k) == Cardinality({j \in 1..n : last(j) < last(k) \/ (last(j) = last(k) /\ j <= k)})
      moved   == [p \in 1..n |-> allPaths[CHOOSE k \in 1..n : rank(k) = p]]
      step    == Max(1, iterations \div 20)
      count   == IF iterations <= 0 THEN 0 ELSE Min(20, (iterations + step - 1) \div step)
  IN  [k \in 1..count |-> moved[(k - 1) * step + 1]]

\* the chart's paths with the stride rounded up: Math.ceil(iterations / 20)
VisualPaths_strideRoundedUp(allPaths, iterations) ==
  LET step  == Max(1, (iterations + 19) \div 20)
      count == IF iterations <= 0 THEN 0 ELSE Min(20, (iterations + step - 1) \div step)
  IN  [k \in 1..count |-> allPaths[(k - 1) * step + 1]]

\* the paths the chart is given: every step-th path, at most 20 of them
VisualPaths(allPaths, iterations) ==
  LET step  == Max(1, iterations \div 20)
      count == IF iterations <= 0 THEN 0 ELSE Min(20, (iterations + step - 1) \div step)
  IN  [k \in 1..count |-> allPaths[(k - 1) * step + 1]]

\* Math.ceil(iterations * 0.05): the index rounded up
Index5th_roundedUp(iterations) == (iterations + 19) \div 20

\* Math.floor(iterations * 0.05) for a whole number of iterations
Index5th(iterations) == iterations \div 20

\* what the callback publishes once its loop has ended
Summary(config, allPaths, payoffs, sumPayoff, sumPayoffSquared, inTheMoneyCount) ==
  LET iterations    == config.iterations
      optionPrice   == FDivInt(sumPayoff, iterations)
      variance      == FSub(FDivInt(sumPayoffSquared, iterations), FSquare(optionPrice))
      standardError == FSqrtOfSquare(FDivInt(variance, iterations))
      sorted        == SortNumbers(payoffs)
      index5th      == Index5th(iterations)
      valueAtRisk   == IF index5th + 1 \in DOMAIN sorted
                       THEN FSub(optionPrice, sorted[index5th + 1])
                       ELSE NaN
  IN  [ optionPrice           |-> optionPrice,
        standardError         |-> standardError,
        inTheMoneyProbability |-> FMul(FDivInt(inTheMoneyCount * ONE, iterations), 100 * ONE),
        valueAtRisk           |-> valueAtRisk,
        visualPaths           |-> VisualPaths(allPaths, iterations) ]

InitialMcParams ==
  [ S0 |-> 100 * USD, K |-> 100 * USD, T |-> ONE, r |-> ONE \div 20, sigma |-> ONE \div 5,
    iterations |-> 2000, steps |-> 50, optionType |-> "call" ]

\* the locals of a callback whose sum starts from the price the earlier
\* callback published
FreshLocals_keepsSums(config) ==
  [ pc |-> "loop", error |-> "none", config |-> config, i |-> 0,
    allPaths |-> << >>, payoffs |-> << >>,
    sumPayoff |-> IF mcResults = << >> THEN 0 ELSE mcResults[1].optionPrice,
    sumPayoffSquared |-> 0, inTheMoneyCount |-> 0,
    path |-> << >>, u1 |-> 0, u2 |-> 0, discarded |-> FALSE, rejected |-> 0,
    draws |-> << >> ]

\* the locals of the callback as it starts with the configuration it closes
\* over; draws is the list of the Gaussian draws the run has consumed, and
\* discarded tells that the sample being drawn has thrown a zero away, and
\* rejected is the parity of the number of zeros it has thrown away
FreshLocals(config) ==
  [ pc |-> "loop", error |-> "none", config |-> config, i |-> 0,
    allPaths |-> << >>, payoffs |-> << >>,
    sumPayoff |-> 0, sumPayoffSquared |-> 0, inTheMoneyCount |-> 0,
    path |-> << >>, u1 |-> 0, u2 |-> 0, discarded |-> FALSE, rejected |-> 0,
    draws |-> << >> ]

\* no callback is running: its locals do not exist
NoLocals == [FreshLocals(InitialMcParams) EXCEPT !.pc = "none"]

InitSim ==
  /\ mcParams = InitialMcParams
  /\ mcResults = << >>
  /\ isCalculating = FALSE
  /\ timer = << >>
  /\ run = NoLocals

\* the callback is between its first and its last statement
InCallback == run.pc \in {"loop", "u1", "u2", "gauss", "payoff"}

\* setMcParams({ ...mcParams, [field]: value })
setMcParams(field, value) ==
  /\ ~InCallback
  /\ mcParams' = [mcParams EXCEPT ![field] = value]
  /\ UNCHANGED <<mcResults, isCalculating, timer, run, pricerVars, allocVars, searchVars>>

\* the click on the run button
runMonteCarloSimulation ==
  /\ ~InCallback
  /\ ~isCalculating
  /\ mcParams.iterations <= MaxIterations
  /\ mcParams.steps <= MaxSteps
  /\ isCalculating' = TRUE
  /\ timer' = <<mcParams>>
  /\ UNCHANGED <<mcParams, mcResults, run, pricerVars, allocVars, searchVars>>

\* the timeout fires: the callback declares its locals
TimeoutFires ==
  /\ ~InCallback
  /\ timer # << >>
  /\ run' = FreshLocals(timer[1])
  /\ timer' = << >>
  /\ UNCHANGED <<mcParams, mcResults, isCalculating, pricerVars, allocVars, searchVars>>

\* the head of the loop over iterations with i < iterations: simulateGBMPath
\* allocates its array, which throws for a negative length, and sets path[0]
BeginPath ==
  /\ run.pc = "loop"
  /\ run.i < run.config.iterations
  /\ run' = IF run.config.steps + 1 < 0
            THEN [NoLocals EXCEPT !.pc = "threw", !.error = "RangeError"]
            ELSE [run EXCEPT !.path = <<run.config.S0>>,
                             !.pc = IF 1 <= run.config.steps THEN "u1" ELSE "payoff"]
  /\ UNCHANGED <<mcParams, mcResults, isCalculating, timer, pricerVars, allocVars, searchVars>>

\* one turn of while (u1 === 0) u1 = Math.random()
DrawU1 ==
  /\ run.pc = "u1"
  /\ \E u \in Uniforms :
       run' = [run EXCEPT !.u1 = u, !.pc = AfterDraw(u, "u1", "u2"),
                          !.discarded = run.discarded \/ u = 0,
                          !.rejected = IF u = 0 THEN 1 - @ ELSE @]
  /\ UNCHANGED <<mcParams, mcResults, isCalculating, timer, pricerVars, allocVars, searchVars>>

\* one turn of while (u2 === 0) u2 = Math.random()
DrawU2 ==
  /\ run.pc = "u2"
  /\ \E u \in Uniforms :
       run' = [run EXCEPT !.u2 = u, !.pc = AfterDraw(u, "u2", "gauss"),
                          !.discarded = run.discarded \/ u = 0,
                          !.rejected = IF u = 0 THEN 1 - @ ELSE @]
  /\ UNCHANGED <<mcParams, mcResults, isCalculating, timer, pricerVars, allocVars, searchVars>>

\* generateGaussianRandom returns and the body of the loop over steps sets path[i]
StepPath ==
  /\ run.pc = "gauss"
  /\ LET Z    == GaussianOf(run.u1, run.u2)
         path == Append(run.path, NextPrice(run.path[Len(run.path)], run.config, Z))
     IN  run' = [run EXCEPT !.path = path, !.draws = Append(run.draws, Z),
                            !.u1 = 0, !.u2 = 0, !.discarded = FALSE, !.rejected = 0,
                            !.pc = IF Len(path) <= run.config.steps THEN "u1" ELSE "payoff"]
  /\ UNCHANGED <<mcParams, mcResults, isCalculating, timer, pricerVars, allocVars, searchVars>>

\* every path is counted, whatever its payoff
CountIfInTheMoney_countsEveryPath(count, payoff) == count + 1

\* if (payoff > 0) inTheMoneyCount++
CountIfInTheMoney(count, payoff) == IF FGt(payoff, 0) THEN count + 1 ELSE count

\* the rest of the body of the loop over iterations, after simulateGBMPath
TakePayoff ==
  /\ run.pc = "payoff"
  /\ LET payoff           == PayoffOf(run.path[Len(run.path)], run.config)
         discountedPayoff == Discounted(payoff, run.config)
     IN  run' = [run EXCEPT !.allPaths = Append(run.allPaths, run.path),
                            !.inTheMoneyCount = CountIfInTheMoney(@, payoff),
                            !.payoffs = Append(run.payoffs, discountedPayoff),
                            !.sumPayoff = FAdd(@, discountedPayoff),
                            !.sumPayoffSquared = FAdd(@, FSquare(discountedPayoff)),
                            !.i = @ + 1,
                            !.path = << >>,
                            !.pc = "loop"]
  /\ UNCHANGED <<mcParams, mcResults, isCalculating, timer, pricerVars, allocVars, searchVars>>

\* the loop over iterations has ended: the statistics, setMcResults and
\* setIsCalculating(false)
Publish ==
  /\ run.pc = "loop"
  /\ ~(run.i < run.config.iterations)
  /\ mcResults' = <<Summary(run.config, run.allPaths, run.payoffs, run.sumPayoff,
                            run.sumPayoffSquared, run.inTheMoneyCount)>>
  /\ isCalculating' = FALSE
  /\ run' = [NoLocals EXCEPT !.pc = "done"]
  /\ UNCHANGED <<mcParams, timer, pricerVars, allocVars, searchVars>>

NextSim ==
  \/ \E v \in SpotInputs : setMcParams("S0", v)
  \/ \E v \in StrikeInputs : setMcParams("K", v)
  \/ \E v \in IterationInputs : setMcParams("iterations", v)
  \/ \E v \in StepInputs : setMcParams("steps", v)
  \/ \E v \in OptionTypes : setMcParams("optionType", v)
  \/ runMonteCarloSimulation
  \/ TimeoutFires
  \/ BeginPath
  \/ DrawU1
  \/ DrawU2
  \/ StepPath
  \/ TakePayoff
  \/ Publish

\* ------------------------------------------------------------------------
\* The ticker search (app/page.tsx: TickerSearch, handleStockSearch)
\* ------------------------------------------------------------------------

\* the largest number of calls of handleStockSearch the model follows
MaxSearches == 2

\* the tabs of the page; TickerSearch is rendered on the first two
Tabs       == {"derivatives", "montecarlo", "allocation"}
SearchTabs == {"derivatives", "montecarlo"}

\* what is typed into the ticker box
TickerTexts == {"", "spy"}

\* e.target.value.toUpperCase()
toUpperCase(text) == IF text = "spy" THEN "SPY" ELSE text

\* the strings a response may carry as its price; "" stands for a price, or
\* a quote, that the body does not have
PriceStrings == {"", "250.5000", "N/A"}

\* parseFloat(priceString)
parseFloat(priceString) ==
  IF priceString = "250.5000" THEN 2505 * (USD \div 10) ELSE NaN

\* how a request may end: fetch or response.json() throws the error threw,
\* or the body is an object that may hold Note, Information and
\* Global Quote['05. price']; "" stands for an absent field
Responses ==
  { [threw |-> "Failed to fetch", Note |-> "", Information |-> "", price |-> ""],
    [threw |-> "", Note |-> "call frequency", Information |-> "", price |-> ""],
    [threw |-> "", Note |-> "", Information |-> "rate limit", price |-> "250.5000"] }
  \cup { [threw |-> "", Note |-> "", Information |-> "", price |-> p] : p \in PriceStrings }

\* the message of the error the try block ends with, "" when it ends normally
ThrownBy(response) ==
  IF response.threw # "" THEN response.threw
  ELSE IF response.Note # "" \/ response.Information # "" THEN "API Limit (Try again in 1min)"
  ELSE IF response.price = "" THEN "Symbol not found"
  ELSE ""

\* setIsFetchingPrice(false) as the last statement of the try block
FlagAfterAttempt_unlessThrown(flag, thrown) == IF thrown THEN flag ELSE FALSE

\* finally { setIsFetchingPrice(false) }
FlagAfterAttempt(flag, thrown) == FALSE

InitSearch ==
  /\ activeTab = "derivatives"
  /\ ticker = ""
  /\ isFetchingPrice = FALSE
  /\ priceError = ""
  /\ fetches = << >>
  /\ searchCalls = 0

\* the click on a tab
setActiveTab(tab) ==
  /\ ~InCallback
  /\ activeTab' = tab
  /\ UNCHANGED <<ticker, isFetchingPrice, priceError, fetches, searchCalls,
                 pricerVars, allocVars, simVars>>

\* onChange of the ticker box
setTicker(text) ==
  /\ ~InCallback
  /\ activeTab \in SearchTabs
  /\ ticker' = toUpperCase(text)
  /\ UNCHANGED <<activeTab, isFetchingPrice, priceError, fetches, searchCalls,
                 pricerVars, allocVars, simVars>>

\* handleStockSearch up to its first await: the Enter key of the ticker box
\* calls it whatever the state of the fetch button
handleStockSearch ==
  /\ ~InCallback
  /\ activeTab \in SearchTabs
  /\ searchCalls < MaxSearches
  /\ searchCalls' = searchCalls + 1
  /\ IF ticker = ""
     THEN UNCHANGED <<isFetchingPrice, priceError, fetches>>
     ELSE /\ isFetchingPrice' = TRUE
          /\ priceError' = ""
          /\ fetches' = Append(fetches, [ticker |-> ticker, activeTab |-> activeTab])
  /\ UNCHANGED <<activeTab, ticker, pricerVars, allocVars, simVars>>

\* the rest of handleStockSearch for the i-th pending call, whose request
\* ends with the given response: the call sees the activeTab of the render
\* it was made in
FetchSettles(i, response) ==
  /\ ~InCallback
  /\ i \in 1..Len(fetches)
  /\ LET attempt == fetches[i]
         thrown  == ThrownBy(response)
         price   == parseFloat(response.price)
     IN  /\ fetches' = SubSeq(fetches, 1, i - 1) \o SubSeq(fetches, i + 1, Len(fetches))
         /\ priceError' = IF thrown # "" THEN thrown ELSE priceError
         /\ isFetchingPrice' = FlagAfterAttempt(isFetchingPrice, thrown # "")
         /\ IF thrown = "" /\ attempt.activeTab = "derivatives"
            THEN /\ S' = price
                 /\ K' = price
                 /\ result' = ResultMemo(price, price, T, r, sigma)
                 /\ UNCHANGED <<T, r, sigma>>
            ELSE UNCHANGED pricerVars
         /\ IF thrown = "" /\ attempt.activeTab = "montecarlo"
            THEN mcParams' = [mcParams EXCEPT !.S0 = price, !.K = price]
            ELSE UNCHANGED mcParams
  /\ UNCHANGED <<activeTab, ticker, searchCalls, mcResults, isCalculating, timer, run,
                 allocVars>>

NextSearch ==
  \/ \E tab \in Tabs : setActiveTab(tab)
  \/ \E text \in TickerTexts : setTicker(text)
  \/ handleStockSearch
  \/ \E i \in 1..MaxSearches, response \in Responses : FetchSettles(i, response)

\* ------------------------------------------------------------------------
\* Specifications: one per tab of the page
\* ------------------------------------------------------------------------

Init == InitPricer /\ InitAlloc /\ InitSim /\ InitSearch

SpecPricer == Init /\ [][NextPricer]_vars

SpecAlloc == Init /\ [][NextAlloc]_vars

SpecSim == Init /\ [][NextSim]_vars

SpecSearch == Init /\ [][NextSearch]_vars

\* a run of the simulation tab from the click to the end of the callback:
\* the page sets the number of paths and of steps, and the event loop fires a
\* pending timeout and runs each statement of the callback it has started
NextRun ==
  \/ \E v \in IterationInputs : setMcParams("iterations", v)
  \/ \E v \in StepInputs : setMcParams("steps", v)
  \/ runMonteCarloSimulation
  \/ TimeoutFires
  \/ BeginPath
  \/ DrawU1
  \/ DrawU2
  \/ StepPath
  \/ TakePayoff
  \/ Publish

\* the event loop fires a pending timeout and runs the callback to its end:
\* no statement of the callback is left waiting. For the steps that only do
\* arithmetic (StepPath, TakePayoff, Publish) weak fairness is stated on the
\* guard: each of them moves run.pc, so it is taken exactly when the callback
\* does not stay at its statement for ever. Which value Math.random()
\* returns is not a matter of scheduling, and no fairness constrains it
SpecRunFair ==
  /\ Init
  /\ [][NextRun]_vars
  /\ WF_vars(TimeoutFires)
  /\ WF_vars(BeginPath)
  /\ WF_vars(DrawU1)
  /\ WF_vars(DrawU2)
  /\ []<>(run.pc # "gauss")
  /\ []<>(run.pc # "payoff")
  /\ []<>~(run.pc = "loop" /\ ~(run.i < run.config.iterations))

\* ------------------------------------------------------------------------
\* Claims about the analytic pricer
\* ------------------------------------------------------------------------

\* the inputs the pricer is specified for
ValidPricerInputs == S > 0 /\ K > 0 /\ T > 0 /\ sigma > 0

\* |(callPrice - putPrice) - (S - K e^(-rT))|, as the parity test computes it
ParityGap ==
  LET lhs == FSub(result.callPrice, result.putPrice)
      rhs == FSub(S, FMul(K, FExp(FMul(FNeg(FDivN(r, 100)), T))))
  IN  FAbs(FSub(lhs, rhs))

\* 1e-5 in money
ParityTolerance == USD \div 100000

\* a result one of whose prices or Greeks is NaN, Infinity or -Infinity
HasNonFinite(res) ==
  \E f \in {"callPrice", "putPrice", "delta", "gamma", "theta", "vega", "rho"} :
    ~IsFinite(res[f])

\* C1: for every valid input (S, K, T, sigma > 0, any r) the result satisfies
\* callPrice - putPrice = S - K e^(-rT) within 1e-5
C1_PutCallParity ==
  ValidPricerInputs => FLt(ParityGap, ParityTolerance + 1)

\* C2: whenever S, K, T or sigma is non-positive the pricer fails with
\* InvalidParameter and returns no result holding NaN or Infinity
C2_RejectsNonPositive ==
  ~ValidPricerInputs =>
    result.error = "InvalidParameter" /\ ~HasNonFinite(result)

\* ------------------------------------------------------------------------
\* Claims about the rebalancing calculation
\* ------------------------------------------------------------------------

\* the sums over the actions the memo holds
SumTargetValues ==
  WSum([i \in 1..Len(calculations.actions) |-> calculations.actions[i].targetValue])
SumDeltas ==
  WSum([i \in 1..Len(calculations.actions) |-> calculations.actions[i].delta])

\* the portfolio total, summed over the asset list itself
PortfolioTotal == SumInts([i \in 1..Len(assets) |-> assets[i].currentValue])

\* C4: whenever an asset's currentValue is negative the calculation fails with
\* InvalidParameter and produces no totals or actions
C4_RejectsNegativeValue ==
  (\E i \in 1..Len(assets) : assets[i].currentValue < 0) =>
    calculations.error = "InvalidParameter" /\ calculations.actions = << >>

\* C5: whatever the target allocations sum to, the calculation returns no
\* error and one action per asset, in order, reports isValid as a separate
\* flag (false when the allocations sum to 90), and the targetValues sum to
\* totalValue * totalAllocation / 100
C5_SoftValidation ==
  /\ calculations.error = "none"
  /\ Len(calculations.actions) = Len(assets)
  /\ \A i \in 1..Len(assets) : calculations.actions[i].id = assets[i].id
  /\ calculations.isValid \in BOOLEAN
  /\ calculations.totalAllocation = 90 * PCT => ~calculations.isValid
  /\ SumTargetValues = PercentOf(calculations.totalValue, calculations.totalAllocation)

\* allocations summing to 90: invalid, and still one action for each of three assets
C5_Witness ==
  /\ calculations.totalAllocation = 90 * PCT
  /\ ~calculations.isValid
  /\ Len(calculations.actions) = 3
  /\ calculations.totalValue > 0
  /\ SumTargetValues = W(90000 * CENT)

\* every asset's targetAllocation is its share 100 * currentValue / totalValue:
\* targetAllocation * totalValue = 100 * currentValue, over a total that is not 0
ExactShares ==
  /\ PortfolioTotal # 0
  /\ \A i \in 1..Len(assets) :
       PercentOf(PortfolioTotal, assets[i].targetAllocation) = W(assets[i].currentValue)

\* 1e-6 of a dollar as a derived amount
RoundTripTolerance == <<0, 1>>

\* C7: when every targetAllocation equals the asset's share of the total
\* exactly, every action is HOLD, the actionable list is empty and the deltas
\* sum to 0 within 1e-6
C7_RoundTrip ==
  ExactShares =>
    /\ \A i \in 1..Len(calculations.actions) : calculations.actions[i].action = "HOLD"
    /\ calculations.actionableItems = << >>
    /\ ~WGt(WAbs(SumDeltas), RoundTripTolerance)

\* the three initial assets with allocations edited to their shares 50/30/20
C7_Witness ==
  /\ ExactShares
  /\ Len(assets) = 3
  /\ assets # InitialAssets
  /\ \E i, j \in 1..Len(assets) : assets[i].targetAllocation # assets[j].targetAllocation

\* C8: when the target allocations sum to 100, the deltas sum to 0, so the
\* total is unchanged, and currentValue + delta is targetAllocation percent of
\* that total for every asset
C8_PlanRestoresWeights ==
  calculations.totalAllocation = 100 * PCT =>
    /\ SumDeltas = W(0)
    /\ WSum([i \in 1..Len(assets) |->
               WAdd(W(assets[i].currentValue), calculations.actions[i].delta)])
         = W(PortfolioTotal)
    /\ \A i \in 1..Len(assets) :
         WAdd(W(assets[i].currentValue), calculations.actions[i].delta)
           = PercentOf(PortfolioTotal, assets[i].targetAllocation)

\* an edited portfolio whose allocations sum to 100 and whose plan trades
C8_Witness ==
  /\ calculations.totalAllocation = 100 * PCT
  /\ assets # InitialAssets
  /\ \E i \in 1..Len(calculations.actions) : calculations.actions[i].action = "BUY"
  /\ \E i \in 1..Len(calculations.actions) : calculations.actions[i].action = "SELL"

\* the arrays the handlers give to setAssets
HandlerLists ==
  {WithNewAsset}
    \cup {WithoutAsset(id) : id \in AssetIds}
    \cup {WithField(id, "currentValue", v) : id \in AssetIds, v \in CurrentValueInputs}
    \cup {WithField(id, "targetAllocation", v) : id \in AssetIds, v \in AllocationInputs}

\* C9: the calculation only reads the asset list: after it has run over the
\* array a handler set, the component holds that array, with the same assets in
\* the same order and the same id, name, currentValue and targetAllocation
C9_OnlyReadsAssets ==
  [][calculations' # calculations => assets' \in HandlerLists]_vars

\* the calculation has run over an edited list that holds a negative value
C9_Witness ==
  /\ assets # InitialAssets
  /\ \E i \in 1..Len(assets) : assets[i].currentValue < 0
  /\ Len(calculations.actions) = Len(assets)
  /\ \A i \in 1..Len(assets) :
       calculations.actions[i].currentValue = assets[i].currentValue

\* ------------------------------------------------------------------------
\* Claims about the Monte Carlo simulator
\* ------------------------------------------------------------------------

\* a configuration the simulation is not specified for
InvalidConfig(config) ==
  \/ config.iterations <= 0
  \/ config.steps <= 0
  \/ config.S0 <= 0
  \/ config.K <= 0
  \/ config.T <= 0
  \/ config.sigma <= 0

\* C3: for N <= 0, M <= 0 or a non-positive S0, K, T or sigma the simulation
\* fails with InvalidParameter before any path is generated: the callback
\* never runs its loop over such a configuration, and publishes nothing
C3_RejectsInvalidConfig ==
  (run.pc # "none" /\ InvalidConfig(run.config)) =>
    run.error = "InvalidParameter" /\ ~InCallback /\ run.pc # "done"

RECURSIVE PathFrom(_, _, _)
\* the path that starts at S0 and consumes the first n of the draws zs
PathFrom(config, zs, n) ==
  IF n = 0 THEN <<config.S0>>
  ELSE LET before == PathFrom(config, zs, n - 1)
       IN  Append(before, NextPrice(before[Len(before)], config, zs[n]))

RECURSIVE FSumOver(_, _)
\* the sum of the first n numbers of s
FSumOver(s, n) == IF n = 0 THEN 0 ELSE FAdd(FSumOver(s, n - 1), s[n])

\* the result of a run as a function of its configuration and of the Gaussian
\* draws it consumed, with nothing accumulated: path k is rebuilt from draws
\* (k-1)M+1 .. kM, and each sum is taken over the rebuilt lists
ResultOf(config, draws) ==
  LET M       == Max(config.steps, 0)
      N       == Max(config.iterations, 0)
      paths   == [k \in 1..N |-> PathFrom(config, SubSeq(draws, (k - 1) * M + 1, k * M), M)]
      raw     == [k \in 1..N |-> PayoffOf(paths[k][M + 1], config)]
      payoffs == [k \in 1..N |-> Discounted(raw[k], config)]
      squares == [k \in 1..N |-> FSquare(payoffs[k])]
  IN  Summary(config, paths, payoffs, FSumOver(payoffs, N), FSumOver(squares, N),
              Cardinality({k \in 1..N : FGt(raw[k], 0)}))

\* C6: the pricer and the rebalancing calculation are functions of their
\* arguments alone, and a simulation result depends only on the run's
\* configuration and on the draws the run consumed: what a run publishes is
\* ResultOf its configuration and draws, whatever ran before, and the path
\* list and payoff list of a run hold one entry per finished iteration of
\* that run
C6_ResultDependsOnRunOnly ==
  [][/\ run.pc = "loop" /\ run'.pc = "done" =>
          mcResults' = <<ResultOf(run.config, run.draws)>>
     /\ InCallback' =>
          /\ Len(run'.allPaths) = run'.i
          /\ Len(run'.payoffs) = run'.i
          /\ Len(run'.draws) = run'.i * Max(run'.config.steps, 0) + Max(Len(run'.path) - 1, 0)
    ]_vars

\* a run that has taken its last payoff, a positive one, while the result of
\* an earlier run with a positive price is still published
C6_Witness ==
  /\ run.pc = "loop"
  /\ run.i = run.config.iterations
  /\ run.i > 1
  /\ run.draws # << >>
  /\ FGt(run.sumPayoff, 0)
  /\ mcResults # << >>
  /\ FGt(mcResults[1].optionPrice, 0)

\* C10: a uniform draw of exactly 0 is discarded and drawn again, so the
\* sampler applies the logarithm to a strictly positive number only and
\* every Gaussian draw it returns is finite
C10_ZeroDrawsDiscarded ==
  /\ run.pc = "gauss" =>
       /\ run.u1 > 0
       /\ run.u2 > 0
       /\ IsFinite(FLog(run.u1))
       /\ IsFinite(GaussianOf(run.u1, run.u2))
  /\ \A k \in 1..Len(run.draws) : IsFinite(run.draws[k])

\* the sampler is about to take the logarithm after it has thrown a zero away
C10_Witness ==
  /\ run.pc = "gauss"
  /\ run.discarded
  /\ run.u1 > 0

\* ------------------------------------------------------------------------
\* Claims about termination
\* ------------------------------------------------------------------------

\* C11 as stated: a simulation run and the Gaussian sampler it calls
\* terminate whatever the uniform source returns: a callback that has
\* started comes to its end
C11_RunTerminates == InCallback ~> ~InCallback

\* the work of a run is bounded by its inputs: it consumes at most N * M
\* Gaussian draws and keeps at most N paths of at most M + 1 prices
WorkBounded ==
  InCallback =>
    /\ Len(run.draws) <= Max(run.config.iterations, 0) * Max(run.config.steps, 0)
    /\ Len(run.allPaths) <= Max(run.config.iterations, 0)
    /\ Len(run.path) <= Max(run.config.steps, 0) + 1
    /\ run.i <= Max(run.config.iterations, 0)

\* C11 as amended: the work of a run is bounded by N paths of M steps, and
\* the run terminates unless the uniform source returns 0 for ever to one of
\* the two rejection loops of the sampler
C11_TerminatesUnlessZerosForever ==
  /\ []WorkBounded
  /\ \/ <>[](run.pc = "u1")
     \/ <>[](run.pc = "u2")
     \/ InCallback ~> ~InCallback

\* a run of N paths of M steps has come to its end and published its paths
C11_Witness ==
  /\ run.pc = "done"
  /\ mcResults # << >>
  /\ Len(mcResults[1].visualPaths) = MaxIterations
  /\ Len(mcResults[1].visualPaths[1]) = MaxSteps + 1

\* ------------------------------------------------------------------------
\* The statistics of a run, over runs of up to MaxPaths paths of one step
\* ------------------------------------------------------------------------

\* the largest number of paths of a run whose statistics are examined
MaxPaths == 41

\* the Gaussian draws these runs consume
DrawValues == <<0 - ONE, 0, ONE>>

\* the order in which a run meets them: <<0, b>> is a run whose draws are all
\* ONE but the one of path b + 1, and <<a, b>> with a > 0 goes round the
\* three values in steps of a, starting b places on
DrawPatterns == (0..2) \X (0..2)

\* the j-th draw of a run of the given pattern
DrawAt(pattern, j) ==
  IF pattern[1] = 0
  THEN IF j = pattern[2] + 1 THEN 0 - ONE ELSE ONE
  ELSE DrawValues[((pattern[1] * j + pattern[2]) % 3) + 1]

\* the locals of the callback when its loop over iterations has ended, after
\* it consumed the given draws
AtLoopExit(config, draws) ==
  LET M       == Max(config.steps, 0)
      N       == Max(config.iterations, 0)
      paths   == [k \in 1..N |-> PathFrom(config, SubSeq(draws, (k - 1) * M + 1, k * M), M)]
      raw     == [k \in 1..N |-> PayoffOf(paths[k][M + 1], config)]
      payoffs == [k \in 1..N |-> Discounted(raw[k], config)]
      squares == [k \in 1..N |-> FSquare(payoffs[k])]
  IN  [FreshLocals(config) EXCEPT
         !.i = N, !.allPaths = paths, !.payoffs = payoffs, !.draws = draws,
         !.sumPayoff = FSumOver(payoffs, N),
         !.sumPayoffSquared = FSumOver(squares, N),
         !.inTheMoneyCount = Cardinality({k \in 1..N : FGt(raw[k], 0)})]

\* a callback whose loop has just ended, for each number of paths, option
\* type and pattern of draws
InitStatistics ==
  /\ InitSearch
  /\ InitPricer
  /\ InitAlloc
  /\ mcResults = << >>
  /\ isCalculating = TRUE
  /\ timer = << >>
  /\ \E N \in 0..MaxPaths, type \in OptionTypes, pattern \in DrawPatterns :
       LET config == [InitialMcParams EXCEPT !.iterations = N, !.steps = 1,
                                             !.optionType = type]
       IN  /\ mcParams = config
           /\ run = AtLoopExit(config, [j \in 1..N |-> DrawAt(pattern, j)])

SpecStatistics == InitStatistics /\ [][Publish]_vars

\* the callback publishes its result
Publishing == run.pc = "loop" /\ run'.pc = "done"

\* the stride of the chart's sample of N paths
Stride(N) == Max(1, N \div 20)

\* C12 as stated: a run returns at most 20 visual paths for every N >= 1,
\* the full paths of the iterations 0, stride, 2*stride, ..., evenly spaced
\* across all N iterations: none of the iterations 0, stride, 2*stride, ...
\* below N is left out, so that fewer than stride iterations follow the last
\* path shown
C12_VisualPathsEvenlySpaced ==
  [][Publishing /\ run.config.iterations >= 1 =>
       LET N     == run.config.iterations
           shown == mcResults'[1].visualPaths
       IN  /\ Len(shown) <= 20
           /\ \A k \in 1..Len(shown) : shown[k] = run.allPaths[(k - 1) * Stride(N) + 1]
           /\ (N - 1) - (Len(shown) - 1) * Stride(N) < Stride(N)
    ]_vars

\* the discounted payoff of each path of a list, from its terminal price
PayoffsOfPaths(config, paths) ==
  [k \in 1..Len(paths) |-> Discounted(PayoffOf(paths[k][Len(paths[k])], config), config)]

\* the mean of a list of amounts
MeanOf(xs) == FDivInt(FSumOver(xs, Len(xs)), Len(xs))

\* the standard error of the mean of a list of amounts
StandardErrorOf(xs) ==
  LET squares == [k \in 1..Len(xs) |-> FSquare(xs[k])]
  IN  FSqrtOfSquare(FDivInt(FSub(FDivInt(FSumOver(squares, Len(xs)), Len(xs)),
                                 FSquare(MeanOf(xs))), Len(xs)))

\* the share, in percent, of the paths that end in the money
InTheMoneyShare(config, paths) ==
  LET inTheMoney == {k \in 1..Len(paths) : FGt(PayoffOf(paths[k][Len(paths[k])], config), 0)}
  IN  FMul(FDivInt(Cardinality(inTheMoney) * ONE, Len(paths)), 100 * ONE)

\* the element that stands at place k (counted from 0) once xs is put in
\* ascending order: at most k elements are below it, more than k are not
\* above it
AtRank(xs, k) ==
  CHOOSE v \in {xs[j] : j \in 1..Len(xs)} :
    /\ Cardinality({j \in 1..Len(xs) : xs[j] < v}) <= k
    /\ Cardinality({j \in 1..Len(xs) : xs[j] <= v}) > k

\* C13: path subsampling is display-only: the price, the standard error, the
\* in-the-money probability and the value at risk a run publishes are those
\* of the payoffs of all its N paths, whichever paths are shown; and sorting
\* the payoffs leaves the paths alone: the k-th visual path is the path
\* simulated at iteration (k-1)*stride, rebuilt here from the draw that
\* iteration consumed
C13_SubsamplingIsDisplayOnly ==
  [][Publishing /\ run.config.iterations >= 1 =>
       LET N         == run.config.iterations
           all       == PayoffsOfPaths(run.config, run.allPaths)
           published == mcResults'[1]
       IN  /\ Len(run.allPaths) = N
           /\ published.optionPrice = MeanOf(all)
           /\ published.standardError = StandardErrorOf(all)
           /\ published.inTheMoneyProbability = InTheMoneyShare(run.config, run.allPaths)
           /\ published.valueAtRisk = FSub(MeanOf(all), AtRank(all, N \div 20))
           /\ \A k \in 1..Len(published.visualPaths) :
                LET i == (k - 1) * Stride(N)
                IN  /\ published.visualPaths[k] = run.allPaths[i + 1]
                    /\ published.visualPaths[k] = PathFrom(run.config, <<run.draws[i + 1]>>, 1)
    ]_vars

\* a published run of more than 20 paths, so that only some are shown, whose
\* payoffs were not met in ascending order: the first path shown ends above
\* the second
C13_Witness ==
  /\ run.pc = "done"
  /\ mcResults # << >>
  /\ mcParams.iterations > 20
  /\ Len(mcResults[1].visualPaths) = 20
  /\ mcResults[1].visualPaths[1][2] > mcResults[1].visualPaths[2][2]
  /\ FGt(mcResults[1].valueAtRisk, 0)

\* C14 as stated: valueAtRisk is non-negative for every run in which at
\* least one discounted payoff is strictly below optionPrice
C14_VaRNonNegativeWithLeftTail ==
  [][Publishing /\ run.config.iterations >= 1 =>
       LET published == mcResults'[1]
       IN  (\E k \in 1..Len(run.payoffs) : run.payoffs[k] < published.optionPrice)
             => published.valueAtRisk >= 0
    ]_vars

\* C14 as amended: valueAtRisk is non-negative for every run in which more
\* than floor(0.05 * N) of the N discounted payoffs are at or below
\* optionPrice
C14_VaRNonNegativeWithWideTail ==
  [][Publishing /\ run.config.iterations >= 1 =>
       LET published == mcResults'[1]
           N         == run.config.iterations
           atOrBelow == {k \in 1..Len(run.payoffs) : run.payoffs[k] <= published.optionPrice}
       IN  Cardinality(atOrBelow) > N \div 20
             => published.valueAtRisk >= 0
    ]_vars

\* a published run of puts over at least 20 paths whose 5th percentile
\* payoff lies strictly below the mean
C14_Witness ==
  /\ run.pc = "done"
  /\ mcResults # << >>
  /\ mcParams.iterations >= 20
  /\ mcParams.optionType = "put"
  /\ mcResults[1].valueAtRisk > 0

\* s is in ascending order
IsAscending(s) == \A k \in 1..(Len(s) - 1) : s[k] <= s[k + 1]

\* s and t hold the same numbers, each as many times
SameNumbers(s, t) ==
  /\ Len(s) = Len(t)
  /\ \A j \in 1..Len(s) :
       Cardinality({k \in 1..Len(s) : s[k] = s[j]}) = Cardinality({k \in 1..Len(t) : t[k] = s[j]})

\* the numbers of xs in ascending order, each found by its rank
Rearranged(xs) == [k \in 1..Len(xs) |-> AtRank(xs, k - 1)]

\* C20: valueAtRisk = optionPrice - sorted[floor(0.05 * N)], where optionPrice
\* is the mean of the N discounted payoffs and sorted is the list of all of
\* them in ascending numeric order
C20_VaRIsMeanMinusFifthPercentile ==
  [][Publishing /\ run.config.iterations >= 1 =>
       LET N         == run.config.iterations
           published == mcResults'[1]
           sorted    == Rearranged(run.payoffs)
       IN  /\ Len(run.payoffs) = N
           /\ IsAscending(sorted)
           /\ SameNumbers(sorted, run.payoffs)
           /\ published.optionPrice = FDivInt(FSumOver(run.payoffs, N), N)
           /\ published.valueAtRisk = FSub(published.optionPrice, sorted[(N \div 20) + 1])
    ]_vars

\* a published run of calls over at least 20 paths, so that the payoff
\* subtracted is not the smallest one, and it lies above the mean
C20_Witness ==
  /\ run.pc = "done"
  /\ mcResults # << >>
  /\ mcParams.iterations >= 20
  /\ mcParams.optionType = "call"
  /\ mcResults[1].valueAtRisk < 0

\* ------------------------------------------------------------------------
\* Claims about the pricer's reference values
\* ------------------------------------------------------------------------

\* the benchmark inputs S=100, K=100, T=1, r=0.05, sigma=0.2 are on the page
AtBenchmark ==
  /\ S = 100 * USD
  /\ K = 100 * USD
  /\ T = ONE
  /\ r = 5 * ONE
  /\ sigma = 20 * ONE

\* 1e-3 of a unit of money
Thousandth == USD \div 1000

\* C15: for S=100, K=100, T=1, r=0.05, sigma=0.2 calculateBlackScholes
\* returns callPrice within 1e-3 of 10.4506 and putPrice within 1e-3 of 5.5735
C15_Benchmark ==
  AtBenchmark =>
    /\ IsFinite(result.callPrice)
    /\ IsFinite(result.putPrice)
    /\ Abs(result.callPrice - 104506 * (USD \div 10000)) <= Thousandth
    /\ Abs(result.putPrice - 55735 * (USD \div 10000)) <= Thousandth

\* the page shows the result of the benchmark inputs, a call worth more than
\* the put
C15_Witness ==
  /\ AtBenchmark
  /\ result.error = "none"
  /\ result.callPrice > result.putPrice
  /\ result.putPrice > 0

\* the derivatives tab with a strike typed far above the spot: the number
\* boxes of the sliders take any number, and the volatility slider reaches
\* sigma = 200 %
DeepSpotInputs   == {1 * USD, 5 * USD, 10 * USD}
DeepStrikeInputs == {500 * USD, 1000 * USD}
DeepTimeInputs   == {ONE \div 4, ONE \div 2, ONE}
DeepRateInputs   == {0, 5 * ONE}
DeepVolInputs    == {20 * ONE, 50 * ONE, 100 * ONE, 200 * ONE}

InitDeepOTM ==
  /\ S = 10 * USD
  /\ K = 1000 * USD
  /\ T = ONE
  /\ r = 5 * ONE
  /\ sigma = 20 * ONE
  /\ result = ResultMemo(10 * USD, 1000 * USD, ONE, 5 * ONE, 20 * ONE)
  /\ InitAlloc
  /\ InitSim
  /\ InitSearch

NextDeepOTM ==
  \/ \E v \in DeepSpotInputs : setS(v)
  \/ \E v \in DeepStrikeInputs : setK(v)
  \/ \E v \in DeepTimeInputs : setT(v)
  \/ \E v \in DeepRateInputs : setR(v)
  \/ \E v \in DeepVolInputs : setSigma(v)

SpecDeepOTM == InitDeepOTM /\ [][NextDeepOTM]_vars

\* 1e-2 of a unit of money
Hundredth == USD \div 100

\* C16 as stated: when the strike is at least 100 times the spot, the call
\* price returned by calculateBlackScholes is within 1e-2 of 0
C16_DeepOTMCallNearZero ==
  (S > 0 /\ K >= 100 * S /\ T > 0 /\ sigma > 0) =>
    IsFinite(result.callPrice) /\ Abs(result.callPrice) <= Hundredth

\* C16 as amended: when the strike is at least 100 times a spot of at most
\* 500, the maturity is at most 1 year, the rate is between 0 and 5 % and the
\* volatility is at most 50 %, the call price is within 1e-2 of 0
C16_DeepOTMCallNearZeroInCalmMarket ==
  (/\ S > 0 /\ S <= 500 * USD /\ K >= 100 * S
   /\ T > 0 /\ T <= ONE
   /\ r >= 0 /\ r <= 5 * ONE
   /\ sigma > 0 /\ sigma <= 50 * ONE) =>
    IsFinite(result.callPrice) /\ Abs(result.callPrice) <= Hundredth

\* the page shows the result of S=10, K=1000, T=1, r=0.05, sigma=0.2: a
\* call worth nothing next to a put worth most of the strike
C16_Witness ==
  /\ S = 10 * USD
  /\ K = 1000 * USD
  /\ T = ONE
  /\ r = 5 * ONE
  /\ sigma = 20 * ONE
  /\ result.error = "none"
  /\ Abs(result.callPrice) <= Hundredth
  /\ result.putPrice > 900 * USD

\* ------------------------------------------------------------------------
\* The portfolio tab around the thresholds: a portfolio of 100 or 200
\* dollars next to an asset of a few cents. For each of these portfolios the
\* double-precision results of the code are the exact decimal ones
\* ------------------------------------------------------------------------

ThresholdAssets ==
  << [id |-> 1, name |-> "US Stocks", currentValue |-> 100 * CENT, targetAllocation |-> 50 * PCT],
     [id |-> 2, name |-> "Bonds", currentValue |-> 0, targetAllocation |-> 0] >>

\* what the number boxes of the two rows are given (cents, and hundredths
\* of a percent)
LargeValueInputs      == {100 * CENT, 200 * CENT}
LargeAllocationInputs == {0, 50 * PCT}
SmallValueInputs      == {0, 1, 2, 3}
SmallAllocationInputs == {0, 1, 2, 50 * PCT, 100 * PCT - 1, 100 * PCT, 100 * PCT + 1}

InitThreshold ==
  /\ InitSearch
  /\ InitPricer
  /\ InitSim
  /\ assets = Calculate(ThresholdAssets).list
  /\ calculations = Calculate(ThresholdAssets).memo
  /\ now = MountTime

NextThreshold ==
  \/ \E v \in LargeValueInputs : updateAsset(1, "currentValue", v)
  \/ \E v \in LargeAllocationInputs : updateAsset(1, "targetAllocation", v)
  \/ \E v \in SmallValueInputs : updateAsset(2, "currentValue", v)
  \/ \E v \in SmallAllocationInputs : updateAsset(2, "targetAllocation", v)
  \/ \E id \in AssetIds : removeAsset(id)

SpecThreshold == InitThreshold /\ [][NextThreshold]_vars

\* 10000 times the delta of asset i in cents, from the asset list itself:
\* totalValue * targetAllocation / 100 - currentValue
DeltaTimes10000(i) == PortfolioTotal * assets[i].targetAllocation - 10000 * assets[i].currentValue

\* C17: each asset's action is decided by the exact thresholds on
\* delta = totalValue * targetAllocation / 100 - currentValue: BUY iff
\* delta > 0.01, SELL iff delta < -0.01, HOLD otherwise, so that a delta of
\* exactly 0.01 or -0.01 is HOLD, and every asset gets exactly one of the
\* three actions
C17_ExactThresholds ==
  /\ Len(calculations.actions) = Len(assets)
  /\ \A i \in 1..Len(assets) :
       LET action == calculations.actions[i].action
       IN  /\ action \in {"BUY", "SELL", "HOLD"}
           /\ action = "BUY" <=> DeltaTimes10000(i) > 10000
           /\ action = "SELL" <=> DeltaTimes10000(i) < 0 - 10000
           /\ action = "HOLD" <=> (DeltaTimes10000(i) <= 10000 /\ DeltaTimes10000(i) >= 0 - 10000)

\* a delta of exactly 0.01 is held next to a sale, and an asset of one cent
\* more than it should hold would be held too
C17_Witness ==
  /\ Len(assets) = 2
  /\ DeltaTimes10000(2) = 10000
  /\ calculations.actions[2].delta = W(1)
  /\ calculations.actions[2].action = "HOLD"
  /\ calculations.actions[1].action = "SELL"

\* the sum of all targetAllocation, from the asset list itself
AllocationTotal == SumInts([i \in 1..Len(assets) |-> assets[i].targetAllocation])

\* C18: isValid is true exactly when the sum of all targetAllocation differs
\* from 100 by strictly less than 0.01; in particular an empty portfolio
\* and sums of 99.99 or 100.01 are invalid
C18_ValidWithinTolerance ==
  /\ calculations.isValid <=>
       (AllocationTotal > 100 * PCT - 1 /\ AllocationTotal < 100 * PCT + 1)
  /\ assets = << >> => ~calculations.isValid
  /\ AllocationTotal \in {100 * PCT - 1, 100 * PCT + 1} => ~calculations.isValid

\* a portfolio whose allocations sum to 99.99 is reported invalid
C18_Witness ==
  /\ assets # << >>
  /\ AllocationTotal = 100 * PCT - 1
  /\ calculations.totalAllocation = 100 * PCT - 1
  /\ ~calculations.isValid

\* the places of the actions that are not held, in ascending order
ActionablePlaces ==
  LET places == {i \in 1..Len(calculations.actions) :
                   calculations.actions[i].action \in {"BUY", "SELL"}}
  IN  [k \in 1..Cardinality(places) |->
         CHOOSE i \in places : Cardinality({j \in places : j < i}) = k - 1]

\* C19: the actionable items are exactly the actions whose action is BUY or
\* SELL, each appearing once, in the same relative order as the assets in
\* the input list
C19_ActionableInOrder ==
  /\ Len(calculations.actionableItems) = Len(ActionablePlaces)
  /\ \A k \in 1..Len(ActionablePlaces) :
       /\ calculations.actionableItems[k] = calculations.actions[ActionablePlaces[k]]
       /\ calculations.actionableItems[k].id = assets[ActionablePlaces[k]].id

\* a sale and a purchase with a held asset between them: two actionable
\* items, the sale first
C19_Witness ==
  /\ Len(assets) = 3
  /\ calculations.actions[1].action = "SELL"
  /\ calculations.actions[2].action = "HOLD"
  /\ calculations.actions[3].action = "BUY"
  /\ Len(calculations.actionableItems) = 2
  /\ calculations.actionableItems[1].action = "SELL"

\* ------------------------------------------------------------------------
\* The last iteration of a run, over runs of up to MaxRuns paths of one step
\* ------------------------------------------------------------------------

\* the largest number of paths of a run whose last iteration is followed
MaxRuns == 8

\* the strikes typed into the strike box: the initial one, and the price at
\* which a path of one step from the initial spot ends when its draw is 0
StrikeAtPathEnd == PathFrom([InitialMcParams EXCEPT !.steps = 1], <<0>>, 1)[2]
LastStrikeInputs == {100 * USD, StrikeAtPathEnd}

\* the locals of the callback when simulateGBMPath has returned the last
\* path of the run, after it consumed the given draws
BeforeLastPayoff(config, draws) ==
  LET N      == config.iterations
      before == AtLoopExit([config EXCEPT !.iterations = N - 1], SubSeq(draws, 1, N - 1))
  IN  [before EXCEPT !.config = config, !.draws = draws, !.pc = "payoff",
                     !.path = PathFrom(config, <<draws[N]>>, 1)]

\* a callback in its last iteration, for each number of paths, strike,
\* option type and pattern of draws
InitPayoffs ==
  /\ InitSearch
  /\ InitPricer
  /\ InitAlloc
  /\ mcResults = << >>
  /\ isCalculating = TRUE
  /\ timer = << >>
  /\ \E N \in 1..MaxRuns, strike \in LastStrikeInputs, type \in OptionTypes,
        pattern \in DrawPatterns :
       LET config == [InitialMcParams EXCEPT !.iterations = N, !.steps = 1,
                                             !.K = strike, !.optionType = type]
       IN  /\ mcParams = config
           /\ run = BeforeLastPayoff(config, [j \in 1..N |-> DrawAt(pattern, j)])

NextPayoffs == TakePayoff \/ Publish

SpecPayoffs == InitPayoffs /\ [][NextPayoffs]_vars

\* the path ends on the side of the strike where the option pays
EndsInTheMoney(config, path) ==
  LET ST == path[Len(path)]
  IN  IF config.optionType = "call" THEN ST > config.K ELSE ST < config.K

\* C21: inTheMoneyProbability = 100 * c / N where c is the number of
\* iterations whose terminal payoff is strictly positive: the iteration of a
\* path that ends beyond the strike adds one to the count and a path that
\* ends exactly at the strike adds nothing, c never exceeds N, and the result
\* lies in [0, 100]
C21_InTheMoneyProbability ==
  [][/\ run.pc = "payoff" =>
          /\ run'.inTheMoneyCount =
               run.inTheMoneyCount + (IF EndsInTheMoney(run.config, run.path) THEN 1 ELSE 0)
          /\ run'.inTheMoneyCount <= run'.i
     /\ Publishing /\ run.config.iterations >= 1 =>
          LET N == run.config.iterations
              c == Cardinality({k \in 1..N : EndsInTheMoney(run.config, run.allPaths[k])})
              p == mcResults'[1].inTheMoneyProbability
          IN  /\ Len(run.allPaths) = N
              /\ c <= N
              /\ p = FMul(FDivInt(c * ONE, N), 100 * ONE)
              /\ 0 <= p
              /\ p <= 100 * ONE
    ]_vars

\* a published run some of whose paths ended in the money, and one exactly
\* at the strike
C21_Witness ==
  /\ run.pc = "done"
  /\ mcResults # << >>
  /\ mcParams.K = StrikeAtPathEnd
  /\ mcParams.iterations > 2
  /\ mcResults[1].inTheMoneyProbability > 0
  /\ mcResults[1].inTheMoneyProbability < 50 * ONE
  /\ \E k \in 1..Len(mcResults[1].visualPaths) :
       mcResults[1].visualPaths[k][2] = mcParams.K

\* ------------------------------------------------------------------------
\* The paths of a run, over runs of up to MaxPathSteps steps
\* ------------------------------------------------------------------------

\* the largest number of steps of a path that is followed point by point
MaxPathSteps == 3

\* the spot prices and the numbers of paths of these runs
PathSpotInputs      == {50 * USD, 100 * USD}
PathIterationInputs == {1, 2}

\* a callback that has just declared its locals, for each spot price, number
\* of paths and number of steps M >= 1
InitPaths ==
  /\ InitSearch
  /\ InitPricer
  /\ InitAlloc
  /\ mcResults = << >>
  /\ isCalculating = TRUE
  /\ timer = << >>
  /\ \E spot \in PathSpotInputs, N \in PathIterationInputs, M \in 1..MaxPathSteps :
       LET config == [InitialMcParams EXCEPT !.S0 = spot, !.iterations = N, !.steps = M]
       IN  /\ mcParams = config
           /\ run = FreshLocals(config)

NextPaths == BeginPath \/ DrawU1 \/ DrawU2 \/ StepPath \/ TakePayoff \/ Publish

SpecPaths == InitPaths /\ [][NextPaths]_vars

\* exp((r - 0.5 * sigma^2) * dt + sigma * sqrt(dt) * Z) with dt = T / M
GrowthFactor(config, Z) ==
  LET dt == FDivInt(config.T, config.steps)
  IN  FExp(FAdd(FMul(FSub(config.r, FMul(FMul(ONE \div 2, config.sigma), config.sigma)), dt),
                FMul(FMul(config.sigma, FSqrt(dt)), Z)))

\* path, the k-th path of the run (counted from 1), starts at S0, each
\* later point is the point before it times the growth factor of the draw
\* the run consumed for that step, and every point is strictly positive
FollowsGBM(path, k) ==
  LET config == run.config
      M      == config.steps
  IN  /\ Len(path) >= 1
      /\ Len(path) <= M + 1
      /\ path[1] = config.S0
      /\ \A j \in 2..Len(path) :
           /\ (k - 1) * M + j - 1 \in DOMAIN run.draws
           /\ path[j] = FMul(path[j - 1], GrowthFactor(config, run.draws[(k - 1) * M + j - 1]))
      /\ config.S0 > 0 => \A j \in 1..Len(path) : IsFinite(path[j]) /\ path[j] > 0

\* C22: every simulated path has exactly M + 1 points, starts with
\* path[0] = S0, and each later point is the previous point multiplied by
\* exp((r - 0.5*sigma^2)*dt + sigma*sqrt(dt)*Z) with dt = T/M and one fresh
\* Gaussian draw Z per step, so that all points are strictly positive when
\* S0 > 0: this holds of the path being built, which is complete when
\* simulateGBMPath returns it, and of every path the run keeps or publishes
C22_PathShape ==
  /\ run.pc \in {"u1", "u2", "gauss", "payoff"} =>
       /\ FollowsGBM(run.path, run.i + 1)
       /\ Len(run.draws) = run.i * run.config.steps + Len(run.path) - 1
       /\ run.pc = "payoff" <=> Len(run.path) = run.config.steps + 1
  /\ InCallback =>
       \A k \in 1..Len(run.allPaths) :
         /\ FollowsGBM(run.allPaths[k], k)
         /\ Len(run.allPaths[k]) = run.config.steps + 1
  /\ run.pc = "done" =>
       \A k \in 1..Len(mcResults[1].visualPaths) :
         LET path == mcResults[1].visualPaths[k]
         IN  /\ Len(path) = mcParams.steps + 1
             /\ path[1] = mcParams.S0
             /\ \A j \in 1..Len(path) : path[j] > 0

\* the second path of a run has all its MaxPathSteps + 1 points, each below
\* the one before it
C22_Witness ==
  /\ run.pc = "payoff"
  /\ run.i = 1
  /\ run.config.steps = MaxPathSteps
  /\ Len(run.path) = MaxPathSteps + 1
  /\ \A j \in 2..Len(run.path) : run.path[j] < run.path[j - 1]

\* ------------------------------------------------------------------------
\* Claims about the normal distribution function
\* ------------------------------------------------------------------------

\* the numbers d1 and d2 at which calculateBlackScholes evaluates normalCDF
\* for the inputs the page holds; it evaluates it at -d1 and -d2 as well
CdfArguments ==
  LET r0     == FDivN(r, 100)
      sigma0 == FDivN(sigma, 100)
      volT   == FMul(sigma0, FSqrt(T))
      d1     == FDiv(FAdd(FLog(FDiv(S, K, ONE)),
                          FMul(FAdd(r0, FMul(FDivN(sigma0, 2), sigma0)), T)),
                     volT, ONE)
  IN  {d1, FSub(d1, volT)}

\* 1e-6
Millionth == ONE \div 1000000

C26_VaRIndexValid ==
  [][Publishing /\ run.config.iterations >= 1 =>
       LET N         == run.config.iterations
           published == mcResults'[1]
       IN  /\ Len(run.payoffs) = N
           /\ 0 <= Index5th(N)
           /\ Index5th(N) <= N - 1
           /\ IsFinite(published.valueAtRisk)
           /\ \E k \in 1..N :
                /\ IsFinite(run.payoffs[k])
                /\ published.valueAtRisk = FSub(published.optionPrice, run.payoffs[k])
    ]_vars

\* a published run of a single path in the money: the index is N - 1 = 0,
\* the payoff taken is the only one and the value at risk is 0
C26_Witness ==
  /\ run.pc = "done"
  /\ mcResults # << >>
  /\ mcParams.iterations = 1
  /\ mcResults[1].optionPrice > 0
  /\ mcResults[1].valueAtRisk = 0

\* C27: the number of visual paths returned by a run is exactly min(N, 20)
\* for every N >= 1, the selection loop never indexes past the last
\* simulated path, and each returned path has M + 1 points
C27_VisualPathCount ==
  [][Publishing /\ run.config.iterations >= 1 =>
       LET N     == run.config.iterations
           M     == run.config.steps
           shown == mcResults'[1].visualPaths
       IN  /\ Len(run.allPaths) = N
           /\ Len(shown) = Min(N, 20)
           /\ \A k \in 1..Len(shown) :
                /\ (k - 1) * Stride(N) < N
                /\ shown[k] = run.allPaths[(k - 1) * Stride(N) + 1]
                /\ Len(shown[k]) = M + 1
    ]_vars

\* a published run of more than 20 paths, not a multiple of 20 of them, that
\* shows 20 paths of two points
C27_Witness ==
  /\ run.pc = "done"
  /\ mcResults # << >>
  /\ mcParams.iterations > 20
  /\ mcParams.iterations % 20 # 0
  /\ Len(mcResults[1].visualPaths) = 20
  /\ \A k \in 1..20 : Len(mcResults[1].visualPaths[k]) = mcParams.steps + 1

\* ------------------------------------------------------------------------
\* Claims about the identity of the assets
\* ------------------------------------------------------------------------

\* C30: after any sequence of addAsset, removeAsset and updateAsset calls
\* the assets of the list have pairwise distinct ids, so that removeAsset(id)
\* removes exactly one asset and updateAsset(id, field, value) changes the
\* field of exactly one asset, leaving the other assets and their order as
\* they were
C30_DistinctIds ==
  /\ \A i, j \in 1..Len(assets) : i # j => assets[i].id # assets[j].id
  /\ \A id \in AssetIds :
       /\ Len(WithoutAsset(id)) = Len(assets) - 1
       /\ \A v \in AllocationInputs :
            LET updated == WithField(id, "targetAllocation", v)
            IN  /\ Len(updated) = Len(assets)
                /\ Cardinality({i \in 1..Len(assets) : updated[i] # assets[i]}) <= 1

\* ------------------------------------------------------------------------
\* Claims about the ticker search
\* ------------------------------------------------------------------------

\* the step is a call of handleStockSearch
SearchCalled == searchCalls' = searchCalls + 1

\* the step is the end of a pending call
AttemptEnds == Len(fetches') < Len(fetches)

\* C28: handleStockSearch with an empty ticker changes nothing; otherwise
\* isFetchingPrice becomes true when the request starts and is always reset
\* to false when the attempt ends, whether the fetch succeeded, reported an
\* API limit, found no symbol, or threw
C28_FetchFlag ==
  [][/\ SearchCalled /\ ticker = "" =>
          UNCHANGED <<activeTab, ticker, isFetchingPrice, priceError, fetches,
                      pricerVars, allocVars, simVars>>
     /\ SearchCalled /\ ticker # "" =>
          /\ isFetchingPrice'
          /\ Len(fetches') = Len(fetches) + 1
     /\ AttemptEnds => ~isFetchingPrice'
     /\ \A i \in 1..Len(fetches), response \in Responses :
          FetchSettles(i, response) => AttemptEnds /\ ~isFetchingPrice'
    ]_vars

\* every call the model follows has been made, the last pending one has
\* ended with no symbol found, and the flag is down
C28_Witness ==
  /\ searchCalls = MaxSearches
  /\ fetches = << >>
  /\ ~isFetchingPrice
  /\ priceError = "Symbol not found"
  /\ S = 100 * USD

\* the fetch failed: the request threw, or the response carries an API-limit
\* note or has no price
FetchFailed(response) ==
  \/ response.threw # ""
  \/ response.Note # ""
  \/ response.Information # ""
  \/ response.price = ""

\* the step overwrites S, K or mcParams
ParametersOverwritten == S' # S \/ K' # K \/ mcParams' # mcParams

\* C29: a failed ticker fetch leaves the model parameters unchanged: when the
\* response carries an API-limit note, has no price, or the request throws,
\* S, K and mcParams keep their previous values and priceError is set to a
\* non-empty message; S and K (or S0 and K) are only ever overwritten by a
\* successfully parsed price
C29_FailedFetchKeepsParameters ==
  [][/\ \A i \in 1..Len(fetches), response \in Responses :
          FetchSettles(i, response) =>
            /\ FetchFailed(response) =>
                 /\ ~ParametersOverwritten
                 /\ priceError' # ""
            /\ ParametersOverwritten =>
                 /\ ~FetchFailed(response)
                 /\ IsFinite(parseFloat(response.price))
     /\ ParametersOverwritten =>
          /\ AttemptEnds
          /\ \/ IsFinite(S') /\ K' = S' /\ mcParams' = mcParams
             \/ IsFinite(mcParams'.S0) /\ mcParams'.K = mcParams'.S0 /\ S' = S /\ K' = K
    ]_vars

\* ------------------------------------------------------------------------
\* Claims about the end of a run
\* ------------------------------------------------------------------------

\* C25: every simulation run that is started eventually finishes: for every
\* parameter set that can be entered through the page, iteration and step
\* counts typed as zero or negative included, after runMonteCarloSimulation
\* has set isCalculating the run publishes mcResults and resets
\* isCalculating, so that the run button is enabled again. Stated of the end
\* of the run: once the callback of a run is over, with no timeout left
\* pending, the run has published mcResults and has reset isCalculating
C25_EndedRunHasFinished ==
  (run.pc # "none" /\ ~InCallback /\ timer = << >>) =>
    (~isCalculating /\ mcResults # << >>)

\* ------------------------------------------------------------------------
\* Double-precision arithmetic (IEEE 754 binary64, round to nearest, ties to
\* even), for the statements of the callback whose rounding matters
\* ------------------------------------------------------------------------
\* A natural number is the sequence of its digits in base Limb, lowest
\* first and without leading zeros; a double is [sign, man, exp], standing
\* for sign * man * 2^exp with man of exactly 53 bits, or with man = << >>
\* for 0. The exponent is not bounded: overflow, underflow and subnormal
\* numbers are not modelled. NotANumber, the record of sign 0, stands for NaN.

Limb == 2^13

\* the digit of a at place i
DigitAt(a, i) == IF i \in 1..Len(a) THEN a[i] ELSE 0

\* a without its leading zeros
Trim(a) ==
  LET used == {i \in 1..Len(a) : a[i] # 0}
  IN  IF used = {} THEN << >>
      ELSE SubSeq(a, 1, CHOOSE i \in used : \A j \in used : j <= i)

RECURSIVE CarryOver(_, _, _)
\* the digits of the number whose place i holds cols[i], any natural number
CarryOver(cols, i, carry) ==
  IF i > Len(cols)
  THEN IF carry = 0 THEN << >> ELSE <<carry % Limb>> \o CarryOver(cols, i, carry \div Limb)
  ELSE <<(cols[i] + carry) % Limb>> \o CarryOver(cols, i + 1, (cols[i] + carry) \div Limb)

BigOf(n) == Trim(CarryOver(<<n>>, 1, 0))

BigAdd(a, b) ==
  CarryOver([i \in 1..Max(Len(a), Len(b)) |-> DigitAt(a, i) + DigitAt(b, i)], 1, 0)

RECURSIVE BorrowOver(_, _, _, _)
BorrowOver(a, b, i, borrow) ==
  IF i > Len(a) THEN << >>
  ELSE LET v == a[i] - DigitAt(b, i) - borrow
       IN  IF v < 0 THEN <<v + Limb>> \o BorrowOver(a, b, i + 1, 1)
           ELSE <<v>> \o BorrowOver(a, b, i + 1, 0)

\* a - b for a >= b
BigSub(a, b) == Trim(BorrowOver(a, b, 1, 0))

\* a * b, for numbers of at most 10 digits
BigMul(a, b) ==
  IF a = << >> \/ b = << >> THEN << >>
  ELSE CarryOver([k \in 1..(Len(a) + Len(b) - 1) |->
                   SumInts([i \in 1..Len(a) |-> a[i] * DigitAt(b, k + 1 - i)])], 1, 0)

BigLess(a, b) ==
  \E i \in 1..Max(Len(a), Len(b)) :
    /\ DigitAt(a, i) < DigitAt(b, i)
    /\ \A j \in (i + 1)..Max(Len(a), Len(b)) : DigitAt(a, j) = DigitAt(b, j)

\* the number of bits of a
BitLen(a) ==
  IF a = << >> THEN 0
  ELSE 13 * (Len(a) - 1) + (CHOOSE k \in 1..13 : 2^(k - 1) <= a[Len(a)] /\ a[Len(a)] < 2^k)

\* a * 2^k
ShiftLeft(a, k) ==
  IF a = << >> THEN << >>
  ELSE [i \in 1..(k \div 13) |-> 0] \o CarryOver([i \in 1..Len(a) |-> a[i] * 2^(k % 13)], 1, 0)

\* a \div 2^k
ShiftRight(a, k) ==
  LET d == SubSeq(a, (k \div 13) + 1, Len(a))
      s == k % 13
  IN  Trim([i \in 1..Len(d) |-> (d[i] \div 2^s) + (DigitAt(d, i + 1) % 2^s) * 2^(13 - s)])

\* bit k of a, the lowest being bit 0
BitAt(a, k) == (DigitAt(a, (k \div 13) + 1) \div 2^(k % 13)) % 2

\* the k lowest bits of a are 0
LowBitsZero(a, k) ==
  /\ \A i \in 1..(k \div 13) : DigitAt(a, i) = 0
  /\ DigitAt(a, (k \div 13) + 1) % 2^(k % 13) = 0

NotANumber == [sign |-> 0, man |-> << >>, exp |-> 0]
DZero == [sign |-> 1, man |-> << >>, exp |-> 0]

\* the double nearest to sign * (n + f) * 2^e, where 0 <= f < 1 and f > 0
\* exactly if inexact holds; n has more than 54 bits whenever inexact holds
RoundToDouble(sign, n, e, inexact) ==
  LET len == BitLen(n)
      s   == len - 53
      q   == ShiftRight(n, s)
      up  == BitAt(n, s - 1) = 1 /\ (inexact \/ ~LowBitsZero(n, s - 1) \/ BitAt(q, 0) = 1)
      m   == IF up THEN BigAdd(q, <<1>>) ELSE q
  IN  IF len = 0 THEN DZero
      ELSE IF len <= 53 THEN [sign |-> sign, man |-> ShiftLeft(n, 53 - len), exp |-> e - (53 - len)]
      ELSE IF BitLen(m) > 53 THEN [sign |-> sign, man |-> ShiftRight(m, 1), exp |-> e + s + 1]
      ELSE [sign |-> sign, man |-> m, exp |-> e + s]

\* the double of a natural number below 2^31
DoubleOf(n) == RoundToDouble(1, BigOf(n), 0, FALSE)

DIsZero(x) == x.sign # 0 /\ x.man = << >>

DNeg(x) == IF DIsZero(x) THEN x ELSE [x EXCEPT !.sign = 0 - x.sign]

\* x * y
DMul(x, y) ==
  IF DIsZero(x) \/ DIsZero(y) THEN DZero
  ELSE RoundToDouble(x.sign * y.sign, BigMul(x.man, y.man), x.exp + y.exp, FALSE)

\* x + y: an operand more than 64 binary places below the other one leaves
\* it as it is
DAdd(x, y) ==
  IF DIsZero(x) THEN y
  ELSE IF DIsZero(y) THEN x
  ELSE LET hi == IF x.exp >= y.exp THEN x ELSE y
           lo == IF x.exp >= y.exp THEN y ELSE x
           a  == ShiftLeft(hi.man, Min(hi.exp - lo.exp, 65))
       IN  IF hi.exp - lo.exp > 64 THEN hi
           ELSE IF hi.sign = lo.sign THEN RoundToDouble(hi.sign, BigAdd(a, lo.man), lo.exp, FALSE)
           ELSE IF BigLess(a, lo.man) THEN RoundToDouble(lo.sign, BigSub(lo.man, a), lo.exp, FALSE)
           ELSE RoundToDouble(hi.sign, BigSub(a, lo.man), lo.exp, FALSE)

DSub(x, y) == DAdd(x, DNeg(y))

\* x < y
DLess(x, y) ==
  LET d == DSub(x, y) IN ~DIsZero(d) /\ d.sign < 0

RECURSIVE DivideOver(_, _, _, _)
\* the digits, highest first, of a \div n and then the remainder, for 0 < n < Limb
DivideOver(a, n, i, rem) ==
  IF i = 0 THEN <<rem>>
  ELSE <<(rem * Limb + a[i]) \div n>> \o DivideOver(a, n, i - 1, (rem * Limb + a[i]) % n)

\* x / n for a whole number 0 < n < Limb
DDivInt(x, n) ==
  IF DIsZero(x) THEN DZero
  ELSE LET wide   == ShiftLeft(x.man, 26)
           digits == DivideOver(wide, n, Len(wide), 0)
           q      == Trim([i \in 1..Len(wide) |-> digits[Len(wide) + 1 - i]])
       IN  RoundToDouble(x.sign, q, x.exp - 26, digits[Len(wide) + 1] # 0)

RECURSIVE RootOver(_, _, _)
\* the largest number whose square is at most n, found bit by bit from bit b
RootOver(n, root, b) ==
  IF b < 0 THEN root
  ELSE LET t == BigAdd(root, ShiftLeft(<<1>>, b))
       IN  IF BigLess(n, BigMul(t, t)) THEN RootOver(n, root, b - 1)
           ELSE RootOver(n, t, b - 1)

\* Math.sqrt(x)
DSqrt(x) ==
  IF x = NotANumber THEN NotANumber
  ELSE IF DIsZero(x) THEN DZero
  ELSE IF x.sign < 0 THEN NotANumber
  ELSE LET k    == 55 + ((x.exp - 55) % 2)
           n    == ShiftLeft(x.man, k)
           root == RootOver(n, << >>, 54)
       IN  RoundToDouble(1, root, (x.exp - k) \div 2, BigMul(root, root) # n)

\* ------------------------------------------------------------------------
\* The callback of a run in double precision, over runs of up to
\* MaxExactRuns paths of one step from a spot far below the strike
\* ------------------------------------------------------------------------

\* the largest number of paths of a run followed in double precision
MaxExactRuns == 6

\* Math.exp(-r * T) for r = 0.05 and T = 1, the only rate and horizon the
\* page holds: 0x1.e7078b0a726a6p-1, the double nearest to e^-0.05
DiscountFactor == [sign |-> 1, man |-> <<1702, 1337, 7724, 7392, 1>>, exp |-> -53]

\* the spots entered into the spot box: 0, and 2^-100 (about 7.9e-31)
ExactSpotInputs == {DZero, [sign |-> 1, man |-> <<0, 0, 0, 0, 1>>, exp |-> -152]}

\* the strikes entered into the strike box
ExactStrikeInputs == {DoubleOf(1), DoubleOf(100), DoubleOf(250)}

\* the factors Math.exp(drift + diffusion) of a step: with one step, r = 0.05
\* and sigma = 0.2 the exponent is 0.03 + 0.2 * Z with |Z| < 8.6, so that
\* every factor lies between 1/8 and 8; the model takes 1/2 and 2
ExactGrowths == {[sign |-> 1, man |-> <<0, 0, 0, 0, 1>>, exp |-> -53], DoubleOf(2)}

\* Math.max(x, y)
DMax(x, y) == IF DLess(x, y) THEN y ELSE x

\* Math.max(ST - K, 0) of a call, Math.max(K - ST, 0) of a put
PayoffInDoubles(ST, config) ==
  IF config.optionType = "call" THEN DMax(DSub(ST, config.K), DZero)
  ELSE DMax(DSub(config.K, ST), DZero)

\* sorted with x put after the elements that are not above it
InsertDouble(sorted, x) ==
  LET k == Cardinality({i \in 1..Len(sorted) : ~DLess(x, sorted[i])})
  IN  SubSeq(sorted, 1, k) \o <<x>> \o SubSeq(sorted, k + 1, Len(sorted))

RECURSIVE SortDoubles(_)
\* payoffs.sort((a, b) => a - b)
SortDoubles(s) ==
  IF s = << >> THEN << >>
  ELSE InsertDouble(SortDoubles(SubSeq(s, 1, Len(s) - 1)), s[Len(s)])

\* sumPayoffSquared / iterations - optionPrice * optionPrice
VarianceInDoubles(sumPayoffSquared, optionPrice, iterations) ==
  DSub(DDivInt(sumPayoffSquared, iterations), DMul(optionPrice, optionPrice))

\* what the callback publishes once its loop has ended, in double precision
SummaryInDoubles(config, allPaths, payoffs, sumPayoff, sumPayoffSquared, inTheMoneyCount) ==
  LET iterations    == config.iterations
      optionPrice   == DDivInt(sumPayoff, iterations)
      variance      == VarianceInDoubles(sumPayoffSquared, optionPrice, iterations)
      standardError == DSqrt(DDivInt(variance, iterations))
      sorted        == SortDoubles(payoffs)
      index5th      == Index5th(iterations)
  IN  [ optionPrice           |-> optionPrice,
        standardError         |-> standardError,
        inTheMoneyProbability |-> DMul(DDivInt(DoubleOf(inTheMoneyCount), iterations),
                                       DoubleOf(100)),
        valueAtRisk           |-> DSub(optionPrice, sorted[index5th + 1]),
        visualPaths           |-> VisualPaths(allPaths, iterations) ]

\* a callback that has just started, for each number of paths, spot, strike
\* and option type
InitDoubles ==
  /\ InitSearch
  /\ InitPricer
  /\ InitAlloc
  /\ mcResults = << >>
  /\ isCalculating = TRUE
  /\ timer = << >>
  /\ \E N \in 1..MaxExactRuns, spot \in ExactSpotInputs, strike \in ExactStrikeInputs,
        type \in OptionTypes :
       LET config == [InitialMcParams EXCEPT !.iterations = N, !.steps = 1, !.S0 = spot,
                                             !.K = strike, !.optionType = type]
       IN  /\ mcParams = config
           /\ run = [FreshLocals(config) EXCEPT !.sumPayoff = DZero,
                                                !.sumPayoffSquared = DZero]

\* the body of the loop over iterations, simulateGBMPath included
IterationInDoubles ==
  /\ run.pc = "loop"
  /\ run.i < run.config.iterations
  /\ \E growth \in ExactGrowths :
       LET path             == <<run.config.S0, DMul(run.config.S0, growth)>>
           payoff           == PayoffInDoubles(path[Len(path)], run.config)
           discountedPayoff == DMul(payoff, DiscountFactor)
       IN  run' = [run EXCEPT !.allPaths = Append(run.allPaths, path),
                              !.inTheMoneyCount = IF DLess(DZero, payoff) THEN @ + 1 ELSE @,
                              !.payoffs = Append(run.payoffs, discountedPayoff),
                              !.sumPayoff = DAdd(@, discountedPayoff),
                              !.sumPayoffSquared =
                                DAdd(@, DMul(discountedPayoff, discountedPayoff)),
                              !.i = @ + 1]
  /\ UNCHANGED <<mcParams, mcResults, isCalculating, timer, pricerVars, allocVars, searchVars>>

\* the loop over iterations has ended: the statistics, setMcResults and
\* setIsCalculating(false)
PublishInDoubles ==
  /\ run.pc = "loop"
  /\ ~(run.i < run.config.iterations)
  /\ mcResults' = <<SummaryInDoubles(run.config, run.allPaths, run.payoffs, run.sumPayoff,
                                     run.sumPayoffSquared, run.inTheMoneyCount)>>
  /\ isCalculating' = FALSE
  /\ run' = [NoLocals EXCEPT !.pc = "done"]
  /\ UNCHANGED <<mcParams, timer, pricerVars, allocVars, searchVars>>

NextDoubles == IterationInDoubles \/ PublishInDoubles

SpecDoubles == InitDoubles /\ [][NextDoubles]_vars

RECURSIVE DSumOver(_, _)
\* the sum of the first n numbers of seq, added from the left
DSumOver(seq, n) == IF n = 0 THEN DZero ELSE DAdd(DSumOver(seq, n - 1), seq[n])

\* C23: the statistics are computed over all N payoffs, each discounted by
\* e^(-rT): optionPrice is their mean, variance is the mean of their squares
\* minus optionPrice squared and is never negative, and standardError is
\* sqrt(variance / N)
C23_Statistics ==
  [][Publishing =>
       LET N        == run.config.iterations
           xs       == run.payoffs
           mean     == DDivInt(DSumOver(xs, N), N)
           squares  == [k \in 1..N |-> DMul(xs[k], xs[k])]
           variance == DSub(DDivInt(DSumOver(squares, N), N), DMul(mean, mean))
       IN  /\ Len(xs) = N
           /\ \A k \in 1..N :
                xs[k] = DMul(PayoffInDoubles(run.allPaths[k][2], run.config), DiscountFactor)
           /\ mcResults'[1].optionPrice = mean
           /\ ~DLess(variance, DZero)
           /\ mcResults'[1].standardError = DSqrt(DDivInt(variance, N))
    ]_vars

====
